---- MODULE Spec2Model ----
(***************************************************************************)
(* A model of the CodeAlive command-line client: credential resolution,   *)
(* the HTTP request core with its error mapping, and the three domain     *)
(* operations (get_datasources, search, chat) of CodeAliveClient.         *)
(*                                                                         *)
(* Text is a sequence of chunks (strings); a whitespace run is a chunk of *)
(* its own, so that str.strip() is computed and not assumed.  An optional *)
(* string (Optional[str]) is a record [some, v].  A decoded JSON value is *)
(* a record [t, s, n, items, fields] with a type tag t.                    *)
(***************************************************************************)
EXTENDS Integers, Sequences, FiniteSets, TLC

VARIABLES
    platformSystem,   \* platform.system() of the host
    store,            \* what the OS credential store tool does when asked
    envKey,           \* os.getenv("CODEALIVE_API_KEY")
    envBase,          \* os.getenv("CODEALIVE_BASE_URL")
    given,            \* the arguments the constructor was called with
    client,           \* the CodeAliveClient object (state, api_key, base_url, timeout)
    consulted,        \* the credential sources __init__ evaluated, in order
    ctorError,        \* the exception __init__ raised ("" when none)
    requests,         \* every HTTP request handed to urlopen, in order
    calls,            \* the number of operations called on the client
    last,             \* the last operation called: its arguments and its outcome
    fmt,              \* a formatter's input and what it rendered
    proc,             \* the command-line process: its arguments and how it ended
    pure              \* a function applied on its own: its argument and its result

vars == <<platformSystem, store, envKey, envBase, given, client, consulted,
          ctorError, requests, calls, last, fmt, proc, pure>>

----------------------------------------------------------------------------
(* Optional[str] and text                                                  *)

None == [some |-> FALSE, v |-> <<>>]
Some(t) == [some |-> TRUE, v |-> t]

\* bool(x) of an Optional[str]: None and "" are falsy
Truthy(o) == o.some /\ o.v # <<>>

IsSpace(c) == c \in {" ", "\n", "\t"}

RECURSIVE LStrip(_)
LStrip(t) == IF t # <<>> /\ IsSpace(Head(t)) THEN LStrip(Tail(t)) ELSE t

RECURSIVE RStrip(_)
RStrip(t) ==
    IF t # <<>> /\ IsSpace(t[Len(t)]) THEN RStrip(SubSeq(t, 1, Len(t) - 1)) ELSE t

\* str.strip()
Strip(t) == RStrip(LStrip(t))

\* chunk occurs in msg; chunk a occurs in msg directly followed by chunk b
Contains(msg, chunk) == \E i \in 1..Len(msg) : msg[i] = chunk
Followed(msg, a, b) == \E i \in 1..(Len(msg) - 1) : msg[i] = a /\ msg[i + 1] = b

----------------------------------------------------------------------------
(* Credential resolution: CodeAliveClient._get_key_from_keychain, __init__ *)

SERVICE_NAME == "codealive-api-key"
DefaultBaseUrl == "https://app.codealive.ai"
DefaultTimeout == 60

Platforms == {"Darwin", "Linux", "Windows", "Java"}

\* One behaviour of the platform's credential tool.  exc # "" is the exception
\* the call raises; rc and stdout are subprocess.run's result; credRead and
\* blob are CredReadW's result on Windows.
StoreOutcome(service, exc, rc, stdout, credRead, blob) ==
    [service |-> service, exc |-> exc, rc |-> rc, stdout |-> stdout,
     credRead |-> credRead, blob |-> blob]

SubprocessOutcomes ==
    { StoreOutcome("", e, 0, <<>>, FALSE, <<>>) : e \in {"FileNotFoundError", "TimeoutExpired"} }
    \cup { StoreOutcome(SERVICE_NAME, "", rc, out, FALSE, <<>>) :
             rc \in {0, 1},
             out \in { <<>>, <<"\n">>, <<"sk-store", "\n">>, <<" ", "sk-store">> } }

WindowsOutcomes ==
    { StoreOutcome("", e, 0, <<>>, FALSE, <<>>) : e \in {"OSError", "UnicodeDecodeError"} }
    \cup { StoreOutcome(SERVICE_NAME, "", 0, <<>>, FALSE, <<>>),
           StoreOutcome(SERVICE_NAME, "", 0, <<>>, TRUE, <<>>),
           StoreOutcome(SERVICE_NAME, "", 0, <<>>, TRUE, <<"sk-win">>) }

StoresOf(system) ==
    CASE system \in {"Darwin", "Linux"} -> SubprocessOutcomes
      [] system = "Windows" -> WindowsOutcomes
      [] OTHER -> { StoreOutcome("", "", 1, <<>>, FALSE, <<>>) }

\* A call that may raise: exc = "" means it returned val.
Returned(val) == [exc |-> "", val |-> val]
Raised(exc) == [exc |-> exc, val |-> None]

\* _read_windows_credential(target_name)
ReadWindowsCredential(st, target) ==
    IF st.exc # "" THEN Raised(st.exc)
    ELSE IF ~(st.credRead /\ st.service = target) THEN Returned(None)
    ELSE IF Len(st.blob) > 0 THEN Returned(Some(st.blob))
    ELSE Returned(None)

\* the body of the try block of _get_key_from_keychain
KeychainLookup(system, st) ==
    IF system \in {"Darwin", "Linux"} THEN
        IF st.exc # "" THEN Raised(st.exc)
        ELSE IF st.rc = 0 /\ st.service = SERVICE_NAME /\ Strip(st.stdout) # <<>>
             THEN Returned(Some(Strip(st.stdout)))
             ELSE Returned(None)
    ELSE IF system = "Windows" THEN ReadWindowsCredential(st, SERVICE_NAME)
    ELSE Returned(None)

\* a lookup whose exceptions escape the handler
GetKeyFromKeychainUncaught(system, st) == KeychainLookup(system, st)

\* _get_key_from_keychain: except (FileNotFoundError, Exception): pass; return None
GetKeyFromKeychain(system, st) ==
    IF KeychainLookup(system, st).exc # "" THEN Returned(None)
    ELSE KeychainLookup(system, st)

\* a resolution that lets the environment variable win over the explicit key
ResolveKeyEnvFirst(api_key, env, system, st) ==
    IF Truthy(env) THEN [key |-> env, consulted |-> <<"env">>, exc |-> ""]
    ELSE IF Truthy(api_key)
         THEN [key |-> api_key, consulted |-> <<"env", "explicit">>, exc |-> ""]
    ELSE [key |-> GetKeyFromKeychain(system, st).val,
          consulted |-> <<"env", "explicit", "store">>,
          exc |-> GetKeyFromKeychain(system, st).exc]

\* api_key or os.getenv("CODEALIVE_API_KEY") or self._get_key_from_keychain()
ResolveKey(api_key, env, system, st) ==
    IF Truthy(api_key) THEN [key |-> api_key, consulted |-> <<"explicit">>, exc |-> ""]
    ELSE IF Truthy(env)
         THEN [key |-> env, consulted |-> <<"explicit", "env">>, exc |-> ""]
    ELSE [key |-> GetKeyFromKeychain(system, st).val,
          consulted |-> <<"explicit", "env", "store">>,
          exc |-> GetKeyFromKeychain(system, st).exc]

\* base_url or os.getenv("CODEALIVE_BASE_URL", "https://app.codealive.ai")
ResolveBaseUrl(base_url, env) ==
    IF base_url # "" THEN base_url
    ELSE IF env.some THEN env.v ELSE DefaultBaseUrl

ExplicitKeys == { None, Some(<<>>), Some(<<"sk-arg">>) }
EnvKeys == { None, Some(<<>>), Some(<<"sk-env">>) }
\* a base_url argument of None and of "" are both falsy: "" stands for both
BaseUrlArgs == { "", "http://localhost:5000" }
\* os.getenv("CODEALIVE_BASE_URL"): unset, set to "", set to a URL
NoBase == [some |-> FALSE, v |-> ""]
EnvBases == { NoBase, [some |-> TRUE, v |-> ""],
              [some |-> TRUE, v |-> "https://eu.codealive.ai"] }

NoClient == [state |-> "none", api_key |-> None, base_url |-> "", timeout |-> 0]
\* a record of one call: op is the operation, the argument fields it does not
\* take keep these defaults; before is Len(requests) when it was called; o is
\* what urlopen did; exc, msg, value are what the call raised or returned
NoCall ==
    [op |-> "none", method |-> "", endpoint |-> "", text |-> <<>>,
     data_sources |-> None, conversation_id |-> None, mode |-> "",
     include_content |-> FALSE, alive_only |-> FALSE, before |-> 0,
     o |-> [kind |-> "", code |-> 0, text |-> <<>>, reason |-> ""],
     exc |-> "", msg |-> <<>>,
     value |-> [t |-> "null", s |-> <<>>, n |-> 0, items |-> <<>>, fields |-> <<>>]]

\* no formatter has run; a formatter's outcome is its text or its exception
NoText == [exc |-> "", text |-> <<>>]
NoFmt == [state |-> "none", items |-> <<>>, include_content |-> FALSE,
          bare |-> NoText, envelope |-> NoText]

\* urlopen was not called
NoOutcome == [kind |-> "", code |-> 0, text |-> <<>>, reason |-> ""]

\* what getpass does at the prompt: returns the typed text, or raises EOFError
\* or KeyboardInterrupt (exc); no prompt was shown
NoPrompt == [exc |-> "", text |-> <<>>]

\* no command-line process has run.  Of a process that has exited: cmd is the
\* script, argv is sys.argv[1:], exit the exit status, help whether the usage
\* text of --help was printed, error the error it ended with ("usage" for a
\* rejected command line, else the exception's name), out the lines printed
\* to stdout, o1 and o2 what urlopen did at the first and the second request,
\* prompt what getpass did, mode the explore mode, stored the key written to
\* the credential store, hint whether the export line was printed
NoProc ==
    [state |-> "none", cmd |-> "", argv |-> <<>>, exit |-> 0, help |-> FALSE,
     error |-> "", out |-> <<>>, o1 |-> NoOutcome, o2 |-> NoOutcome,
     prompt |-> NoPrompt, asked |-> FALSE, mode |-> "", stored |-> None, hint |-> FALSE]

\* no function applied: fn names the function, arg is its argument, out its result
NoPure == [state |-> "none", fn |-> "", arg |-> <<>>, out |-> <<>>]

\* __init__ once the key expression is evaluated to r
Constructed(api_key, base_url, r) ==
    /\ given' = [api_key |-> api_key, base_url |-> base_url]
    /\ consulted' = r.consulted
    /\ IF r.exc # "" THEN
           /\ ctorError' = r.exc
           /\ client' = [NoClient EXCEPT !.state = "failed"]
       ELSE IF ~Truthy(r.key) THEN
           /\ ctorError' = "ValueError"
           /\ client' = [NoClient EXCEPT !.state = "failed"]
       ELSE
           /\ ctorError' = ""
           /\ client' = [state |-> "ready", api_key |-> r.key,
                         base_url |-> ResolveBaseUrl(base_url, envBase),
                         timeout |-> DefaultTimeout]

\* CodeAliveClient.__init__(api_key, base_url)
Construct ==
    /\ client.state = "none"
    /\ \E api_key \in ExplicitKeys, base_url \in BaseUrlArgs :
         Constructed(api_key, base_url,
                     ResolveKey(api_key, envKey, platformSystem, store))
    /\ UNCHANGED <<platformSystem, store, envKey, envBase, requests, calls, last,
                   fmt, proc, pure>>

----------------------------------------------------------------------------
(* Decoded JSON values and the Python operations the client applies to them *)

JNull == [t |-> "null", s |-> <<>>, n |-> 0, items |-> <<>>, fields |-> <<>>]
JBool(b) == [t |-> "bool", s |-> <<>>, n |-> IF b THEN 1 ELSE 0, items |-> <<>>, fields |-> <<>>]
JNum(n) == [t |-> "num", s |-> <<>>, n |-> n, items |-> <<>>, fields |-> <<>>]
\* a str: its text
JStr(s) == [t |-> "str", s |-> s, n |-> 0, items |-> <<>>, fields |-> <<>>]
JList(items) == [t |-> "list", s |-> <<>>, n |-> 0, items |-> items, fields |-> <<>>]
\* a dict: its (key, value) pairs in insertion order, keys distinct
JObj(fields) == [t |-> "obj", s |-> <<>>, n |-> 0, items |-> <<>>, fields |-> fields]

\* bool(v)
JTruthy(v) ==
    CASE v.t = "null" -> FALSE
      [] v.t \in {"bool", "num"} -> v.n # 0
      [] v.t = "str" -> v.s # <<>>
      [] v.t = "list" -> v.items # <<>>
      [] OTHER -> v.fields # <<>>

\* key in d
HasKey(d, k) == \E i \in 1..Len(d.fields) : d.fields[i][1] = k

\* d[k] for a key that is present
ValueOf(d, k) == d.fields[CHOOSE i \in 1..Len(d.fields) : d.fields[i][1] = k][2]

\* the outcome of an expression: exc = "" means it evaluated to v
Val(v) == [exc |-> "", v |-> v]
Exc(e) == [exc |-> e, v |-> JNull]

\* x.get(k, default): only a dict has the attribute get
PyGet(x, k, default) ==
    IF x.exc # "" THEN x
    ELSE IF x.v.t # "obj" THEN Exc("AttributeError")
    ELSE IF HasKey(x.v, k) THEN Val(ValueOf(x.v, k))
    ELSE Val(default)

\* x[0]
PyFirst(x) ==
    IF x.exc # "" THEN x
    ELSE CASE x.v.t = "list" ->
                IF x.v.items = <<>> THEN Exc("IndexError") ELSE Val(x.v.items[1])
           [] x.v.t = "str" ->
                IF x.v.s = <<>> THEN Exc("IndexError") ELSE Val(JStr(<<Head(x.v.s)>>))
           [] x.v.t = "obj" ->
                Exc("KeyError")
           [] OTHER -> Exc("TypeError")

(* Text of a JSON document, as json.dumps and a server write it *)
RECURSIVE Dumps(_)
RECURSIVE DumpItems(_)
RECURSIVE DumpFields(_)
DumpItems(items) ==
    IF items = <<>> THEN <<>>
    ELSE Dumps(Head(items))
         \o (IF Tail(items) = <<>> THEN <<>> ELSE <<",">> \o DumpItems(Tail(items)))
DumpFields(fields) ==
    IF fields = <<>> THEN <<>>
    ELSE <<"\"", Head(fields)[1], "\"", ":">> \o Dumps(Head(fields)[2])
         \o (IF Tail(fields) = <<>> THEN <<>> ELSE <<",">> \o DumpFields(Tail(fields)))
Dumps(v) ==
    CASE v.t = "null" -> <<"null">>
      [] v.t = "bool" -> IF v.n # 0 THEN <<"true">> ELSE <<"false">>
      [] v.t = "num" -> <<ToString(v.n)>>
      [] v.t = "str" -> <<"\"">> \o v.s \o <<"\"">>
      [] v.t = "list" -> <<"[">> \o DumpItems(v.items) \o <<"]">>
      [] OTHER -> <<"{">> \o DumpFields(v.fields) \o <<"}">>

----------------------------------------------------------------------------
(* The HTTP core: CodeAliveClient._make_request                            *)

\* What urlopen does with one request: kind "ok" is a response whose body is
\* text; kind "http" is urllib.error.HTTPError with status code and body text;
\* kind "url" is urllib.error.URLError with a reason.
Ok(text) == [kind |-> "ok", code |-> 200, text |-> text, reason |-> ""]
HttpError(code, text) == [kind |-> "http", code |-> code, text |-> text, reason |-> ""]
UrlError(reason) == [kind |-> "url", code |-> 0, text |-> <<>>, reason |-> reason]

\* The JSON documents a server sends in the modelled runs.
Item1 ==
    JObj(<< <<"location", JObj(<< <<"path", JStr(<<"src/auth.py">>)>> >>)>>,
            <<"kind", JStr(<<"Symbol">>)>> >>)
\* SearchResult items: the nested location with a line range, a Chunk whose
\* path is in its identifier only, the flat candidate keys, and an empty item
ItemFull ==
    JObj(<< <<"location",
              JObj(<< <<"path", JStr(<<"src/login.py">>)>>,
                      <<"range", JObj(<< <<"start", JObj(<< <<"line", JNum(10)>> >>)>>,
                                         <<"end", JObj(<< <<"line", JNum(20)>> >>)>> >>)>> >>)>>,
            <<"dataSource", JObj(<< <<"name", JStr(<<"my-repo">>)>> >>)>>,
            <<"kind", JStr(<<"Symbol">>)>>,
            <<"identifier", JStr(<<"my-repo", "::", "src/login.py", "::", "login">>)>>,
            <<"score", JNum(2)>>,
            <<"snippet", JStr(<<" ", "def login():", "\n">>)>> >>)
ItemChunk ==
    JObj(<< <<"kind", JStr(<<"Chunk">>)>>,
            <<"identifier", JStr(<<"my-repo", "::", "src/db.py", "::", "17">>)>>,
            <<"content", JStr(<<"SELECT 1">>)>>,
            <<"score", JNum(5)>> >>)
ItemLegacy ==
    JObj(<< <<"filePath", JStr(<<"lib/a.py">>)>>, <<"startLine", JNum(3)>>,
            <<"endLine", JNum(3)>>, <<"dataSource", JStr(<<"team">>)>>,
            <<"relevance", JNum(1)>> >>)
ItemFile ==
    JObj(<< <<"file", JStr(<<"lib/b.py">>)>>, <<"lineNumber", JNum(7)>>,
            <<"kind", JStr(<<"File">>)>>, <<"identifier", JStr(<<"b-module">>)>> >>)
ItemPath ==
    JObj(<< <<"path", JStr(<<"lib/c.py">>)>>, <<"startLine", JNum(0)>>,
            <<"score", JNum(0)>> >>)
SearchResultItems == { Item1, ItemFull, ItemChunk, ItemLegacy, ItemFile, ItemPath, JObj(<<>>) }

\* items that are not SearchResults: a null location, a line that is a string
ItemNullLocation == JObj(<< <<"location", JNull>>, <<"kind", JStr(<<"Symbol">>)>> >>)
ItemTextLine == JObj(<< <<"filePath", JStr(<<"lib/d.py">>)>>, <<"startLine", JStr(<<"12">>)>> >>)
MalformedItems == { ItemNullLocation, ItemTextLine }

Choice(content) == JObj(<< <<"message", JObj(<< <<"content", content>> >>)>> >>)
ChatDocs ==
    { JObj(<< <<"choices", JList(<<Choice(JStr(<<"X">>))>>)>>, <<"id", JStr(<<"abc">>)>> >>),
      JObj(<< <<"id", JStr(<<"abc2">>)>>,
              <<"choices", JList(<<Choice(JStr(<<"Y">>)), Choice(JStr(<<"Z">>))>>)>> >>),
      JObj(<< <<"choices", JList(<<Choice(JStr(<<"X">>))>>)>> >>),
      JObj(<< <<"choices", JList(<<Choice(JNull)>>)>>, <<"id", JNum(7)>> >>),
      JObj(<<>>),
      JObj(<< <<"id", JStr(<<"abc">>)>> >>),
      JObj(<< <<"error", JStr(<<"overloaded">>)>>, <<"id", JStr(<<"abc">>)>> >>),
      JObj(<< <<"choices", JList(<<>>)>> >>),
      JObj(<< <<"choices", JNull>> >>),
      JObj(<< <<"choices", JList(<<JObj(<<>>)>>)>> >>),
      JObj(<< <<"choices", JList(<<JObj(<< <<"message", JObj(<<>>)>> >>)>>)>> >>),
      JObj(<< <<"choices", JList(<<JObj(<< <<"message", JNull>> >>)>>)>> >>),
      JList(<<>>) }
\* a DataSource as the server lists it
DataSource(name, type, state) ==
    JObj(<< <<"name", JStr(<<name>>)>>, <<"type", JStr(<<type>>)>>,
            <<"description", JStr(<<"indexed code">>)>>, <<"state", JStr(<<state>>)>> >>)
DataSourceList ==
    JList(<< DataSource("my-repo", "Repository", "Alive"),
             DataSource("team", "Workspace", "Processing"),
             DataSource("a-repo", "Repository", "Alive") >>)
ListDocs ==
    { JList(<<Item1>>), JObj(<< <<"results", JList(<<Item1>>)>> >>), DataSourceList }
\* search responses in the runs of the explore front end: six results, an
\* envelope, a result whose location is null, no results
SearchDocs ==
    { JList(<<ItemFull, ItemChunk, ItemLegacy, ItemFile, ItemPath, Item1>>),
      JObj(<< <<"results", JList(<<ItemLegacy, ItemFull>>)>> >>),
      JList(<<ItemNullLocation>>),
      JList(<<>>) }
ErrorDocs ==
    { JObj(<<>>),
      JObj(<< <<"message", JStr(<<"bad key">>)>> >>),
      JObj(<< <<"error", JStr(<<"denied">>)>> >>),
      JObj(<< <<"message", JStr(<<>>)>>, <<"error", JStr(<<"denied">>)>> >>),
      JObj(<< <<"message", JStr(<<" ">>)>> >>),
      JObj(<< <<"message", JNum(42)>> >>),
      JObj(<< <<"message", JList(<<JStr(<<"a">>)>>)>> >>),
      JList(<<JStr(<<"a">>)>>),
      JStr(<<"unauthorized">>),
      JNull }
JsonDocs == ChatDocs \cup ListDocs \cup SearchDocs \cup ErrorDocs

\* texts that are not JSON
NonJsonTexts == { <<"Bad", " ", "Gateway">>, <<" ">> }

\* json.loads(text): the document whose text this is; JSONDecodeError for a
\* text that is no document (the empty text included)
JsonTexts == { <<Dumps(d), d>> : d \in JsonDocs }
JsonLoads(text) ==
    IF \E p \in JsonTexts : p[1] = text
    THEN Val((CHOOSE p \in JsonTexts : p[1] = text)[2])
    ELSE Exc("JSONDecodeError")

\* a query parameter: a string or a list of strings
PStr(s) == [list |-> FALSE, s |-> s, items |-> <<>>]
PList(items) == [list |-> TRUE, s |-> "", items |-> items]

\* urllib.parse.urlencode(params, doseq=True): one name=value pair per string
\* parameter and one per element of a list parameter
RECURSIVE UrlEncode(_)
UrlEncode(params) ==
    IF params = <<>> THEN <<>>
    ELSE LET k == Head(params)[1]
             p == Head(params)[2]
         IN  (IF p.list THEN [i \in 1..Len(p.items) |-> <<k, p.items[i]>>]
              ELSE << <<k, p.s>> >>)
             \o UrlEncode(Tail(params))

\* str(v) inside an f-string: a str is its text, anything else its repr
PyFormat(v) == IF v.t = "str" THEN v.s ELSE Dumps(v)

\* error_data.get("message") or error_data.get("error") or error_body
ErrorMsgOf(message, error, error_body) ==
    IF message.exc # "" THEN message
    ELSE IF JTruthy(message.v) THEN message
    ELSE IF JTruthy(error.v) THEN error
    ELSE Val(JStr(error_body))

\* the try block that sets error_msg; except json.JSONDecodeError: error_body
ErrorMsg(error_data, error_body) ==
    IF error_data.exc = "JSONDecodeError" THEN Val(JStr(error_body))
    ELSE ErrorMsgOf(PyGet(error_data, "message", JNull),
                    PyGet(error_data, "error", JNull), error_body)

\* the exception raised for status code once error_msg is set
HttpErrorFor(c, code, error_msg) ==
    IF error_msg.exc # "" THEN [exc |-> error_msg.exc, msg |-> <<>>, value |-> JNull]
    ELSE IF code = 401 THEN
        IF error_msg.v.t # "str" THEN [exc |-> "AttributeError", msg |-> <<>>, value |-> JNull]
        ELSE [exc |-> "Exception",
              msg |-> <<"Authentication failed (", "401", ")">>
                      \o (IF Strip(error_msg.v.s) # <<>>
                          THEN <<": ">> \o PyFormat(error_msg.v) ELSE <<>>)
                      \o <<". ", "Your API key may be invalid or expired. ",
                           "Get a new key at: ", c.base_url, "/settings/api-keys">>,
              value |-> JNull]
    ELSE IF code = 403 THEN
        [exc |-> "Exception",
         msg |-> <<"Access denied (", "403", "): ">> \o PyFormat(error_msg.v)
                 \o <<". ", "Your API key may lack permissions for this operation.">>,
         value |-> JNull]
    ELSE IF code = 404 THEN
        [exc |-> "Exception",
         msg |-> <<"Not found (", "404", "): ">> \o PyFormat(error_msg.v),
         value |-> JNull]
    ELSE IF code = 429 THEN
        [exc |-> "Exception",
         msg |-> <<"Rate limit exceeded (", "429", "). Please wait before retrying.">>,
         value |-> JNull]
    ELSE IF code >= 500 THEN
        [exc |-> "Exception",
         msg |-> <<"Server error (", ToString(code), "): ">> \o PyFormat(error_msg.v)
                 \o <<". ", "The CodeAlive service may be temporarily unavailable.">>,
         value |-> JNull]
    ELSE
        [exc |-> "Exception",
         msg |-> <<"API request failed (", ToString(code), "): ">> \o PyFormat(error_msg.v),
         value |-> JNull]

\* the except urllib.error.HTTPError branch
HandleHttpError(c, code, error_body) ==
    HttpErrorFor(c, code, ErrorMsg(JsonLoads(error_body), error_body))

\* the request object handed to urlopen
BuildRequest(c, method, endpoint, params, body) ==
    [method |-> method,
     base |-> c.base_url,
     endpoint |-> endpoint,
     query |-> IF params # <<>> THEN UrlEncode(params) ELSE <<>>,
     authorization |-> <<"Bearer ">> \o c.api_key.v,
     contentType |-> "application/json",
     body |-> IF JTruthy(body) THEN body ELSE JNull,
     data |-> IF JTruthy(body) THEN Some(Dumps(body)) ELSE None,
     timeout |-> c.timeout]

\* return json.loads(response_data), or the JSONDecodeError it raises
Decoded(d) == [exc |-> d.exc, msg |-> <<>>, value |-> d.v]

\* what _make_request returns or raises once urlopen has behaved as o
Respond(c, o) ==
    IF o.kind = "ok" THEN
        IF o.text = <<>> THEN [exc |-> "", msg |-> <<>>, value |-> JObj(<<>>)]
        ELSE Decoded(JsonLoads(o.text))
    ELSE IF o.kind = "http" THEN HandleHttpError(c, o.code, o.text)
    ELSE
        [exc |-> "Exception",
         msg |-> <<"Cannot connect to ", c.base_url, ": ", o.reason, ". ",
                   "Check your network connection and CODEALIVE_BASE_URL setting.">>,
         value |-> JNull]

\* the outcome r of a call together with the requests it handed to urlopen
Sent(reqs, r) == [sent |-> reqs, exc |-> r.exc, msg |-> r.msg, value |-> r.value]

\* a request sent twice
Twice(req) == <<req, req>>

\* a client that sends the request again after a 429 or a 5xx response
MakeRequestRetrying(c, method, endpoint, params, body, o) ==
    IF o.kind = "http" /\ (o.code = 429 \/ o.code >= 500)
    THEN Sent(Twice(BuildRequest(c, method, endpoint, params, body)), Respond(c, o))
    ELSE Sent(<<BuildRequest(c, method, endpoint, params, body)>>, Respond(c, o))

\* _make_request(method, endpoint, params, body) when urlopen behaves as o:
\* the requests handed to urlopen, and the value returned or the exception raised
MakeRequest(c, method, endpoint, params, body, o) ==
    Sent(<<BuildRequest(c, method, endpoint, params, body)>>, Respond(c, o))

----------------------------------------------------------------------------
(* Domain operations: get_datasources, search, chat                        *)

\* d[k] = v on a dict: replaces the value of a present key, appends a new key
DictSet(d, k, v) ==
    IF HasKey(d, k)
    THEN JObj([i \in 1..Len(d.fields) |->
                 IF d.fields[i][1] = k THEN <<k, v>> ELSE d.fields[i]])
    ELSE JObj(Append(d.fields, <<k, v>>))

\* a list of names as a JSON list of strings
NamesList(names) == JList([i \in 1..Len(names) |-> JStr(<<names[i]>>)])

\* a get_datasources that asks for every data source whatever alive_only is
GetDatasourcesOneEndpoint(c, alive_only, o) ==
    MakeRequest(c, "GET", "/api/datasources/all", <<>>, JNull, o)

\* get_datasources(alive_only)
GetDatasources(c, alive_only, o) ==
    MakeRequest(c, "GET",
                IF alive_only THEN "/api/datasources/alive" ELSE "/api/datasources/all",
                <<>>, JNull, o)

\* search(query, data_sources, mode, include_content)
Search(c, query, data_sources, mode, include_content, o) ==
    MakeRequest(c, "GET", "/api/search",
                << <<"Query", PStr(query)>>,
                   <<"Mode", PStr(mode)>>,
                   <<"IncludeContent", PStr(IF include_content THEN "true" ELSE "false")>>,
                   <<"Names", PList(data_sources)>> >>,
                JNull, o)

\* body = {"messages": [{"role": "user", "content": question}], "stream": True}
ChatBody0(question) ==
    JObj(<< <<"messages", JList(<<JObj(<< <<"role", JStr(<<"user">>)>>,
                                          <<"content", JStr(question)>> >>)>>)>>,
            <<"stream", JBool(TRUE)>> >>)

\* a chat() that tests data_sources before conversation_id
ChatBodyNamesFirst(question, data_sources, conversation_id) ==
    IF Truthy(data_sources)
    THEN Val(DictSet(DictSet(ChatBody0(question), "names", NamesList(data_sources.v)),
                     "stream", JBool(FALSE)))
    ELSE IF Truthy(conversation_id)
    THEN Val(DictSet(DictSet(ChatBody0(question), "conversationId",
                             JStr(conversation_id.v)),
                     "stream", JBool(FALSE)))
    ELSE Exc("ValueError")

\* a chat() without the final else: raise ValueError
ChatBodyUnchecked(question, data_sources, conversation_id) ==
    IF Truthy(conversation_id)
    THEN Val(DictSet(DictSet(ChatBody0(question), "conversationId",
                             JStr(conversation_id.v)),
                     "stream", JBool(FALSE)))
    ELSE IF Truthy(data_sources)
    THEN Val(DictSet(DictSet(ChatBody0(question), "names", NamesList(data_sources.v)),
                     "stream", JBool(FALSE)))
    ELSE Val(DictSet(ChatBody0(question), "stream", JBool(FALSE)))

\* the body chat() builds; exc = "ValueError" when neither argument is usable
ChatBody(question, data_sources, conversation_id) ==
    IF Truthy(conversation_id)
    THEN Val(DictSet(DictSet(ChatBody0(question), "conversationId",
                             JStr(conversation_id.v)),
                     "stream", JBool(FALSE)))
    ELSE IF Truthy(data_sources)
    THEN Val(DictSet(DictSet(ChatBody0(question), "names", NamesList(data_sources.v)),
                     "stream", JBool(FALSE)))
    ELSE Exc("ValueError")

\* {"answer": answer, "conversation_id": response.get("id"), "full_response": response}
ChatDict(answer, id, response) ==
    IF answer.exc # "" THEN answer
    ELSE Val(JObj(<< <<"answer", answer.v>>,
                     <<"conversation_id", id.v>>,
                     <<"full_response", response>> >>))

\* a chat() that reads the conversation id from the key conversationId
ChatResultWrongId(response) ==
    ChatDict(PyGet(PyGet(PyFirst(PyGet(Val(response), "choices", JList(<<JObj(<<>>)>>))),
                         "message", JObj(<<>>)),
                   "content", JStr(<<>>)),
             PyGet(Val(response), "conversationId", JNull),
             response)

\* a chat() whose default for a missing choices key is the empty list
ChatResultStrict(response) ==
    ChatDict(PyGet(PyGet(PyFirst(PyGet(Val(response), "choices", JList(<<>>))),
                         "message", JObj(<<>>)),
                   "content", JStr(<<>>)),
             PyGet(Val(response), "id", JNull),
             response)

\* the dict chat() returns for a decoded response, or the exception raised
ChatResult(response) ==
    ChatDict(PyGet(PyGet(PyFirst(PyGet(Val(response), "choices", JList(<<JObj(<<>>)>>))),
                         "message", JObj(<<>>)),
                   "content", JStr(<<>>)),
             PyGet(Val(response), "id", JNull),
             response)

\* chat() from the request on
ChatReturn(r, res) ==
    IF r.exc # "" THEN r
    ELSE [sent |-> r.sent, exc |-> res.exc, msg |-> <<>>, value |-> res.v]

ChatSend(c, body, o, r) ==
    IF body.exc # ""
    THEN [sent |-> <<>>, exc |-> body.exc,
          msg |-> <<"Either conversation_id or data_sources must be provided">>,
          value |-> JNull]
    ELSE ChatReturn(r, ChatResult(r.value))

\* chat(question, data_sources, conversation_id)
Chat(c, question, data_sources, conversation_id, o) ==
    ChatSend(c, ChatBody(question, data_sources, conversation_id), o,
             MakeRequest(c, "POST", "/api/chat/completions", <<>>,
                         ChatBody(question, data_sources, conversation_id).v, o))

----------------------------------------------------------------------------
(* The search front end's formatter: search.py format_search_results       *)

\* a dict's d.get(k, default), and Python's a or b, on values that cannot raise
DGet(d, k, default) == IF HasKey(d, k) THEN ValueOf(d, k) ELSE default
POr(a, b) == IF JTruthy(a) THEN a ELSE b

\* a or b, where evaluating a or b may raise; b is evaluated only for a falsy a
PyOr(a, b) ==
    IF a.exc # "" THEN a
    ELSE IF JTruthy(a.v) THEN a
    ELSE b

\* str(v) of a value inside an f-string
PyStr(v) ==
    CASE v.t = "null" -> <<"None">>
      [] v.t = "bool" -> IF v.n # 0 THEN <<"True">> ELSE <<"False">>
      [] OTHER -> PyFormat(v)

\* "\n".join(lines)
RECURSIVE Join(_)
Join(lines) ==
    IF lines = <<>> THEN <<>>
    ELSE IF Tail(lines) = <<>> THEN Head(lines)
    ELSE Head(lines) \o <<"\n">> \o Join(Tail(lines))

\* the position of the first chunk sep in t, 0 when there is none
RECURSIVE IndexOf(_, _)
IndexOf(t, sep) ==
    IF t = <<>> THEN 0
    ELSE IF Head(t) = sep THEN 1
    ELSE IF IndexOf(Tail(t), sep) = 0 THEN 0
    ELSE 1 + IndexOf(Tail(t), sep)

\* t.split(sep), the separator being a chunk of its own
RECURSIVE Split(_, _)
Split(t, sep) ==
    IF IndexOf(t, sep) = 0 THEN <<t>>
    ELSE <<SubSeq(t, 1, IndexOf(t, sep) - 1)>>
         \o Split(SubSeq(t, IndexOf(t, sep) + 1, Len(t)), sep)

\* the outcome of a formatting step: the lines appended, or the exception
Lines(l) == [exc |-> "", lines |-> l]
Fail(e) == [exc |-> e, lines |-> <<>>]

\* "::" in identifier raises TypeError for None and for a number
InRaises(identifier) == identifier.t \in {"null", "num", "bool"}
HasSep(identifier) == identifier.t = "str" /\ Contains(identifier.s, "::")

\* x > 0 raises TypeError unless x is a number
IsNumber(x) == x.t \in {"num", "bool"}

\* location.get("path") or result.get("filePath") or result.get("file")
\*   or result.get("path")
FilePathOf(result, location) ==
    PyOr(PyOr(PyOr(PyGet(location, "path", JNull),
                   PyGet(Val(result), "filePath", JNull)),
              PyGet(Val(result), "file", JNull)),
         PyGet(Val(result), "path", JNull))

\* range_info.get("start", {}).get("line") or result.get("startLine")
\*   or result.get("lineNumber")
StartLineOf(result, range_info) ==
    PyOr(PyOr(PyGet(PyGet(range_info, "start", JObj(<<>>)), "line", JNull),
              PyGet(Val(result), "startLine", JNull)),
         PyGet(Val(result), "lineNumber", JNull))

\* range_info.get("end", {}).get("line") or result.get("endLine")
EndLineOf(result, range_info) ==
    PyOr(PyGet(PyGet(range_info, "end", JObj(<<>>)), "line", JNull),
         PyGet(Val(result), "endLine", JNull))

\* ds.get("name") if isinstance(ds, dict) else ds
SourceNameOf(ds) == IF ds.t = "obj" THEN DGet(ds, "name", JNull) ELSE ds

\* file_path after the Chunk rule: parts[1] of identifier.split("::")
PathFromIdentifier(file_path, identifier) ==
    IF ~JTruthy(file_path) /\ HasSep(identifier)
    THEN JStr(Split(identifier.s, "::")[2])
    ELSE file_path

\* identifier.split("::")[-1] if "::" in identifier else identifier
ShortId(identifier) ==
    IF HasSep(identifier)
    THEN JStr(Split(identifier.s, "::")[Len(Split(identifier.s, "::"))])
    ELSE identifier

\* loc_str: file_path, file_path:start or file_path:start-end
LocStr(file_path, start_line, end_line) ==
    IF ~JTruthy(file_path) THEN <<>>
    ELSE IF JTruthy(start_line) /\ start_line.n > 0 THEN
        IF JTruthy(end_line) /\ end_line.n # start_line.n /\ end_line.n > 0
        THEN PyStr(file_path) \o <<":">> \o PyStr(start_line) \o <<"-">> \o PyStr(end_line)
        ELSE PyStr(file_path) \o <<":">> \o PyStr(start_line)
    ELSE PyStr(file_path)

\* the exception the comparisons of lines 77-78 raise, "" when none
CompareRaises(file_path, start_line, end_line) ==
    IF ~(JTruthy(file_path) /\ JTruthy(start_line)) THEN ""
    ELSE IF ~IsNumber(start_line) THEN "TypeError"
    ELSE IF start_line.n > 0 /\ JTruthy(end_line) /\ ~IsNumber(end_line) THEN "TypeError"
    ELSE ""

\* f"{score:.2f}"
ScoreRaises(score) ==
    CASE score.t = "str" -> "ValueError"
      [] score.t \in {"list", "obj"} -> "TypeError"
      [] OTHER -> ""
FormatF2(score) == <<ToString(score.n), ".00">>

\* the chunk that stands for the code fence, three backquotes
Fence == "'''"

\* the lines one result appends once every local is evaluated (lines 84-97)
BlockLines(idx, kind, identifier, file_path, loc_str, source_name, score, snippet) ==
    << <<"\n--- Result #", ToString(idx), " [">> \o PyStr(kind) \o <<"] ---">> >>
    \o (IF loc_str # <<>> THEN << <<"  File: ">> \o loc_str >> ELSE <<>>)
    \o (IF JTruthy(identifier) /\ kind # JStr(<<"Chunk">>) /\ ShortId(identifier) # file_path
        THEN << <<"  Symbol: ">> \o PyStr(ShortId(identifier)) >> ELSE <<>>)
    \o (IF JTruthy(source_name) THEN << <<"  Source: ">> \o PyStr(source_name) >> ELSE <<>>)
    \o (IF score.t # "null" THEN << <<"  Relevance: ">> \o FormatF2(score) >> ELSE <<>>)
    \o (IF Strip(snippet.s) # <<>>
        THEN << <<"\n", Fence, "\n">> \o Strip(snippet.s) \o <<"\n", Fence>> >> ELSE <<>>)

\* lines 61-97 for a dict result whose location values are evaluated; the
\* first statement that raises decides the exception
ItemBlock(idx, result, file_path0, start_line, end_line, kind, identifier, score, snippet) ==
    IF ~JTruthy(file_path0) /\ InRaises(identifier) THEN Fail("TypeError")
    ELSE IF CompareRaises(PathFromIdentifier(file_path0, identifier), start_line, end_line) # ""
    THEN Fail(CompareRaises(PathFromIdentifier(file_path0, identifier), start_line, end_line))
    ELSE IF JTruthy(identifier) /\ kind # JStr(<<"Chunk">>) /\ InRaises(identifier)
    THEN Fail("TypeError")
    ELSE IF ScoreRaises(score) # "" THEN Fail(ScoreRaises(score))
    ELSE IF snippet.t # "str" THEN Fail("AttributeError")
    ELSE Lines(BlockLines(idx, kind, identifier,
                          PathFromIdentifier(file_path0, identifier),
                          LocStr(PathFromIdentifier(file_path0, identifier),
                                 start_line, end_line),
                          SourceNameOf(DGet(result, "dataSource", JObj(<<>>))),
                          score, snippet))

\* lines 55-58 evaluated: file_path, start_line, end_line may have raised
ItemLocated(idx, result, file_path, start_line, end_line) ==
    IF file_path.exc # "" THEN Fail(file_path.exc)
    ELSE IF start_line.exc # "" THEN Fail(start_line.exc)
    ELSE IF end_line.exc # "" THEN Fail(end_line.exc)
    ELSE ItemBlock(idx, result, file_path.v, start_line.v, end_line.v,
                   DGet(result, "kind", JStr(<<>>)),
                   DGet(result, "identifier", JStr(<<>>)),
                   POr(DGet(result, "score", JNull), DGet(result, "relevance", JNull)),
                   POr(POr(POr(DGet(result, "snippet", JNull), DGet(result, "content", JNull)),
                           DGet(result, "code", JNull)),
                       JStr(<<>>)))

\* the body of the for loop for one result (lines 53-97)
ItemLines(idx, result) ==
    ItemLocated(idx, result,
                FilePathOf(result, PyGet(Val(result), "location", JObj(<<>>))),
                StartLineOf(result, PyGet(PyGet(Val(result), "location", JObj(<<>>)),
                                          "range", JObj(<<>>))),
                EndLineOf(result, PyGet(PyGet(Val(result), "location", JObj(<<>>)),
                                        "range", JObj(<<>>))))

\* the lines of x followed by those of y, or the first exception
Then(x, y) ==
    IF x.exc # "" THEN x
    ELSE IF y.exc # "" THEN y
    ELSE Lines(x.lines \o y.lines)

\* a loop over the results sorted by descending score
ScoreKey(r) ==
    IF r.t = "obj" /\ HasKey(r, "score") /\ ValueOf(r, "score").t = "num"
    THEN ValueOf(r, "score").n ELSE 0
RECURSIVE InsertByScore(_, _)
InsertByScore(r, sorted) ==
    IF sorted = <<>> THEN <<r>>
    ELSE IF ScoreKey(r) > ScoreKey(Head(sorted)) THEN <<r>> \o sorted
    ELSE <<Head(sorted)>> \o InsertByScore(r, Tail(sorted))
RECURSIVE SortByScore(_)
SortByScore(items) ==
    IF items = <<>> THEN <<>>
    ELSE InsertByScore(items[Len(items)], SortByScore(SubSeq(items, 1, Len(items) - 1)))
RECURSIVE RenderEach(_, _)
RenderEach(items, idx) ==
    IF items = <<>> THEN Lines(<<>>)
    ELSE Then(ItemLines(idx, Head(items)), RenderEach(Tail(items), idx + 1))
RenderItemsByScore(items, idx) == RenderEach(SortByScore(items), idx)

\* for idx, result in enumerate(items, idx): the blocks in the order of items
RECURSIVE RenderItems(_, _)
RenderItems(items, idx) ==
    IF items = <<>> THEN Lines(<<>>)
    ELSE Then(ItemLines(idx, Head(items)), RenderItems(Tail(items), idx + 1))

\* what the function returns: the text, or the exception raised
Rendered(r, footer) ==
    IF r.exc # "" THEN [exc |-> r.exc, text |-> <<>>]
    ELSE [exc |-> "", text |-> Join(r.lines \o footer)]

\* a formatter that knows the bare list only
SearchItemsListOnly(results) ==
    IF results.t = "list" THEN Val(results) ELSE Val(JList(<<results>>))

\* the items of a response (lines 42-47): a list itself, the results field
\* of an object that has one, else the response as the only item
SearchItems(results) ==
    CASE results.t = "list" -> Val(results)
      [] results.t = "obj" ->
           IF HasKey(results, "results") THEN Val(ValueOf(results, "results"))
           ELSE Val(JList(<<results>>))
      [] results.t = "str" ->
           IF Contains(results.s, "results") THEN Exc("TypeError")
           ELSE Val(JList(<<results>>))
      [] OTHER -> Exc("TypeError")

\* lines 49-100 once items is set
FormatItems(items) ==
    IF items.exc # "" THEN [exc |-> items.exc, text |-> <<>>]
    ELSE IF ~JTruthy(items.v) THEN [exc |-> "", text |-> <<"No results found.">>]
    ELSE CASE items.v.t = "list" ->
                Rendered(RenderItems(items.v.items, 1),
                         << <<"\n(", ToString(Len(items.v.items)), " results)">> >>)
           [] items.v.t \in {"obj", "str"} -> [exc |-> "AttributeError", text |-> <<>>]
           [] OTHER -> [exc |-> "TypeError", text |-> <<>>]

\* format_search_results(results, include_content)
FormatSearchResults(results, include_content) ==
    IF ~JTruthy(results) THEN [exc |-> "", text |-> <<"No results found.">>]
    ELSE FormatItems(SearchItems(results))

----------------------------------------------------------------------------
(* Specifications                                                          *)

\* the process before the client is constructed, in any environment
InitCred ==
    /\ platformSystem \in Platforms
    /\ store \in StoresOf(platformSystem)
    /\ envKey \in EnvKeys
    /\ envBase \in EnvBases
    /\ given = [api_key |-> None, base_url |-> ""]
    /\ client = NoClient
    /\ consulted = <<>>
    /\ ctorError = ""
    /\ requests = <<>>
    /\ calls = 0
    /\ last = NoCall
    /\ fmt = NoFmt
    /\ proc = NoProc
    /\ pure = NoPure

NextCred == Construct

SpecCred == InitCred /\ [][NextCred]_vars

----------------------------------------------------------------------------
(* Command-line front ends                                                 *)

\* how a main() ends: sent are the requests it handed to urlopen, constructed
\* whether it called CodeAliveClient()
Ended(exit, error, out, sent, constructed) ==
    [exit |-> exit, help |-> FALSE, error |-> error, out |-> out, sent |-> sent,
     constructed |-> constructed, mode |-> "", asked |-> FALSE, stored |-> None,
     hint |-> FALSE]

\* print(__doc__); sys.exit(0)
HelpShown == [Ended(0, "", <<>>, <<>>, FALSE) EXCEPT !.help = TRUE]

\* the client object of CodeAliveClient() in this environment
CliClient ==
    IF ResolveKey(None, envKey, platformSystem, store).exc # ""
       \/ ~Truthy(ResolveKey(None, envKey, platformSystem, store).key)
    THEN [NoClient EXCEPT !.state = "failed"]
    ELSE [state |-> "ready",
          api_key |-> ResolveKey(None, envKey, platformSystem, store).key,
          base_url |-> ResolveBaseUrl("", envBase),
          timeout |-> DefaultTimeout]

\* the exception CodeAliveClient() raises in this environment, "" when none
CliCtorError ==
    IF ResolveKey(None, envKey, platformSystem, store).exc # ""
    THEN ResolveKey(None, envKey, platformSystem, store).exc
    ELSE IF ~Truthy(ResolveKey(None, envKey, platformSystem, store).key)
    THEN "ValueError" ELSE ""

\* the credential store once setup.py's store_key has written api_key under
\* SERVICE_NAME
StoreHolding(system, api_key) ==
    IF system = "Windows" THEN StoreOutcome(SERVICE_NAME, "", 0, <<>>, TRUE, api_key)
    ELSE StoreOutcome(SERVICE_NAME, "", 0, api_key \o <<"\n">>, FALSE, <<>>)

\* one run of a script from start to exit: r is how its main() ends
Exec(cmd, argv, o1, o2, prompt, r) ==
    /\ proc.state = "none"
    /\ proc' = [state |-> "exited", cmd |-> cmd, argv |-> argv, exit |-> r.exit,
                help |-> r.help, error |-> r.error, out |-> r.out,
                o1 |-> IF Len(r.sent) >= 1 THEN o1 ELSE NoOutcome,
                o2 |-> IF Len(r.sent) >= 2 THEN o2 ELSE NoOutcome,
                prompt |-> IF r.asked THEN prompt ELSE NoPrompt,
                asked |-> r.asked, mode |-> r.mode,
                stored |-> r.stored, hint |-> r.hint]
    /\ requests' = requests \o r.sent
    /\ client' = IF r.constructed THEN CliClient ELSE client
    /\ ctorError' = IF r.constructed THEN CliCtorError ELSE ctorError
    /\ consulted' = IF r.constructed
                    THEN ResolveKey(None, envKey, platformSystem, store).consulted
                    ELSE consulted
    /\ store' = IF r.stored.some THEN StoreHolding(platformSystem, r.stored.v) ELSE store
    /\ UNCHANGED <<platformSystem, envKey, envBase, given, calls, last, fmt, pure>>

(* check_auth.py *)

\* find_key(): the environment variable, else the macOS or Linux store tool
FindKey(env, system, st) ==
    IF Truthy(env) THEN TRUE
    ELSE IF system \in {"Darwin", "Linux"} THEN
        IF st.exc # "" THEN FALSE
        ELSE st.rc = 0 /\ st.service = SERVICE_NAME /\ Strip(st.stdout) # <<>>
    ELSE FALSE

\* check_auth.py main()
CheckAuthMain(found) ==
    IF found
    THEN Ended(0, "", << <<"CodeAlive API key found. Ready to use.">> >>, <<>>, FALSE)
    ELSE Ended(1, "", << <<"CodeAlive API key not configured.">> >>, <<>>, FALSE)

\* python check_auth.py: the script does not read its arguments
RunCheckAuth ==
    \E argv \in { <<>>, <<"--help">> } :
        Exec("check_auth", argv, NoOutcome, NoOutcome, NoPrompt,
             CheckAuthMain(FindKey(envKey, platformSystem, store)))

NextAuth == RunCheckAuth

SpecAuth == InitCred /\ [][NextAuth]_vars

(* explore.py *)

\* the characters of a command-line argument as text: a mode word, the colon
\* after it and a run of spaces are chunks of their own
ChunksOf(arg) ==
    CASE arg = "understand:auth flow" -> <<"understand", ":", "auth flow">>
      [] arg = "dependency:lodash" -> <<"dependency", ":", "lodash">>
      [] arg = "pattern: retry " -> <<"pattern", ":", " ", "retry", " ">>
      [] arg = "implement:rate limiting" -> <<"implement", ":", "rate limiting">>
      [] arg = "debug:slow queries" -> <<"debug", ":", "slow queries">>
      [] arg = "Pattern:retry" -> <<"Pattern", ":", "retry">>
      [] arg = "fix:bug" -> <<"fix", ":", "bug">>
      [] OTHER -> <<arg>>

\* the spellings of the mode words in the queries of the runs, each with its
\* lower-case form
Spellings ==
    { <<"Understand", "understand">>, <<"UNDERSTAND", "understand">>,
      <<"Dependency", "dependency">>, <<"DEPENDENCY", "dependency">>,
      <<"Pattern", "pattern">>, <<"PATTERN", "pattern">>,
      <<"Implement", "implement">>, <<"iMpLeMeNt", "implement">>,
      <<"Debug", "debug">>, <<"DEBUG", "debug">>,
      <<"Fix", "fix">> }

\* a comparison that tells upper case from lower case
LowerKept(w) == w

\* str.lower() of a chunk
Lower(w) ==
    IF \E p \in Spellings : p[1] = w
    THEN (CHOOSE p \in Spellings : p[1] = w)[2]
    ELSE w

ExploreModes == <<"understand", "dependency", "pattern", "implement", "debug">>

\* parse_query(query): the first mode whose prefix "mode:" the lower-cased
\* query starts with, and the rest of the query stripped; else understand
RECURSIVE ParseQueryFrom(_, _)
ParseQueryFrom(query, modes) ==
    IF modes = <<>> THEN [mode |-> "understand", query |-> query]
    ELSE IF Len(query) >= 2 /\ Lower(query[1]) = Head(modes) /\ query[2] = ":"
    THEN [mode |-> Head(modes), query |-> Strip(SubSeq(query, 3, Len(query)))]
    ELSE ParseQueryFrom(query, Tail(modes))
ParseQuery(query) == ParseQueryFrom(query, ExploreModes)

\* f"workspace:{name}"
WorkspaceName(name) ==
    CASE name = "team" -> "workspace:team"
      [] name = "my-repo" -> "workspace:my-repo"
      [] OTHER -> "workspace:"

\* the data_sources list main() collects from sys.argv[i:]
RECURSIVE ExploreSources(_)
ExploreSources(args) ==
    IF args = <<>> THEN <<>>
    ELSE IF Head(args) = "--workspace" /\ Len(args) >= 2
    THEN <<WorkspaceName(args[2])>> \o ExploreSources(SubSeq(args, 3, Len(args)))
    ELSE <<Head(args)>> \o ExploreSources(Tail(args))

\* ', '.join(data_sources)
RECURSIVE CommaJoin(_)
CommaJoin(names) ==
    IF names = <<>> THEN <<>>
    ELSE IF Tail(names) = <<>> THEN <<Head(names)>>
    ELSE <<Head(names), ", ">> \o CommaJoin(Tail(names))

\* "=" * 80
Rule == <<"================================================================================">>

\* the arguments of the search call of each workflow
ExploreSearchQuery(mode, query) ==
    CASE mode = "understand" -> query
      [] mode = "dependency" ->
           <<"How is ">> \o query \o <<" used? Show me import statements and usage examples">>
      [] mode = "pattern" -> <<"Show me different implementations of ">> \o query
      [] mode = "implement" ->
           <<"Similar features to ">> \o query \o <<", existing implementations">>
      [] OTHER -> <<"Code related to ">> \o query

ExploreSearchMode(mode) == IF mode = "pattern" THEN "deep" ELSE "auto"

\* workflows that ask for content in pattern and debug only
ExploreIncludeContentTwo(mode) == mode \in {"pattern", "debug"}

ExploreIncludeContent(mode) == mode \in {"dependency", "pattern", "debug"}

\* the question of the chat call of each workflow
ExploreQuestion(mode, query) ==
    CASE mode = "understand" ->
           <<"Based on the search results for '">> \o query
           \o <<"', explain how this works in the codebase. Focus on architecture, key components, and data flow.">>
      [] mode = "dependency" ->
           <<"About the library/dependency '">> \o query
           \o <<"':\n1. How does it work internally?\n2. What are the common usage patterns in this codebase?\n3. What are best practices and potential gotchas?\n4. How do other projects in the ecosystem use it?">>
      [] mode = "pattern" ->
           <<"Analyze the different implementations of '">> \o query
           \o <<"' found in the codebase:\n1. What are the common patterns?\n2. What are the variations?\n3. Which approach is recommended and why?\n4. Are there any anti-patterns to avoid?">>
      [] mode = "implement" ->
           <<"I need to implement '">> \o query
           \o <<"'. Based on the codebase:\n1. What similar features exist that I can learn from?\n2. What are the architectural patterns I should follow?\n3. What components/services do I need to integrate with?\n4. What are the key considerations (security, performance, testing)?\n5. What's the recommended approach to implement this?">>
      [] OTHER ->
           <<"Help me debug: '">> \o query
           \o <<"'\n1. What code is likely involved?\n2. What could be causing this issue?\n3. What should I check first?\n4. What are common mistakes related to this?\n5. How can I trace and fix this issue?">>

\* the lines each workflow prints before its search call, the pictographs
\* that open them left out
ExploreBanner(mode, query, names) ==
    << <<"Mode: ",
         CASE mode = "understand" -> "UNDERSTAND"
           [] mode = "dependency" -> "DEPENDENCY DEEP-DIVE"
           [] mode = "pattern" -> "PATTERN DISCOVERY"
           [] mode = "implement" -> "IMPLEMENTATION GUIDE"
           [] OTHER -> "DEBUG INVESTIGATION">>,
       << CASE mode = "understand" -> "Topic: "
            [] mode = "dependency" -> "Library: "
            [] mode = "pattern" -> "Pattern: "
            [] mode = "implement" -> "Feature to implement: "
            [] OTHER -> "Issue: " >> \o query,
       <<"Data sources: ">> \o CommaJoin(names),
       <<>>,
       << CASE mode = "understand" -> "Step 1: Searching for relevant code..."
            [] mode = "dependency" -> "Step 1: Finding usage patterns..."
            [] mode = "pattern" -> "Searching across projects (deep mode)..."
            [] mode = "implement" -> "Step 1: Finding similar implementations..."
            [] OTHER -> "Step 1: Finding related code..." >>,
       <<>> >>

\* the lines printed between the search call and the chat call
ExploreStep2(mode) ==
    << << CASE mode = "understand" -> "Step 2: Getting expert explanation..."
            [] mode = "dependency" -> "Step 2: Understanding internals and best practices..."
            [] mode = "pattern" -> "Analyzing patterns..."
            [] mode = "implement" -> "Step 2: Getting implementation guidance..."
            [] OTHER -> "Step 2: Analyzing root cause..." >>,
       <<>> >>

\* the heading over the answer
ExploreHeading(mode) ==
    << CASE mode = "understand" -> "EXPLANATION:"
         [] mode = "dependency" -> "DEPENDENCY ANALYSIS:"
         [] mode = "pattern" -> "PATTERN ANALYSIS:"
         [] mode = "implement" -> "IMPLEMENTATION GUIDE:"
         [] OTHER -> "DEBUG ANALYSIS:" >>

\* what print() has written when a step ends: the lines, and the exception
\* that ended the step, "" when it ran to its end
Printed(l) == [exc |-> "", lines |-> l]
PrintedThenRaised(l, e) == [exc |-> e, lines |-> l]

\* the lines of x followed by those of y; an exception in x ends the printing
After(x, y) ==
    IF x.exc # "" THEN x
    ELSE [exc |-> y.exc, lines |-> x.lines \o y.lines]

\* location.get("path") or result.get("filePath") or result.get("file") or "Unknown"
ExploreFilePath(result, location) ==
    PyOr(PyOr(PyOr(PyGet(location, "path", JNull),
                   PyGet(Val(result), "filePath", JNull)),
              PyGet(Val(result), "file", JNull)),
         Val(JStr(<<"Unknown">>)))

\* range_info.get("start", {}).get("line") or result.get("startLine") or "?"
ExploreLine(result, range_info) ==
    PyOr(PyOr(PyGet(PyGet(range_info, "start", JObj(<<>>)), "line", JNull),
              PyGet(Val(result), "startLine", JNull)),
         Val(JStr(<<"?">>)))

\* print(f"   {idx}. {file_path}:{line}")
LocationPrinted(idx, file_path, line) ==
    IF file_path.exc # "" THEN PrintedThenRaised(<<>>, file_path.exc)
    ELSE IF line.exc # "" THEN PrintedThenRaised(<<>>, line.exc)
    ELSE Printed(<< <<"   ", ToString(idx), ". ">> \o PyStr(file_path.v)
                    \o <<":">> \o PyStr(line.v) >>)

\* the body of the loop of explore_understand for one result
LocationLine(idx, result) ==
    LocationPrinted(idx,
                    ExploreFilePath(result, PyGet(Val(result), "location", JObj(<<>>))),
                    ExploreLine(result, PyGet(PyGet(Val(result), "location", JObj(<<>>)),
                                              "range", JObj(<<>>))))

\* for idx, result in enumerate(items, idx)
RECURSIVE LocationLines(_, _)
LocationLines(items, idx) ==
    IF items = <<>> THEN Printed(<<>>)
    ELSE After(LocationLine(idx, Head(items)), LocationLines(Tail(items), idx + 1))

\* items[:5] of a list
Top5(items) == SubSeq(items, 1, IF Len(items) < 5 THEN Len(items) ELSE 5)

\* the loop over items[:5], whatever items is: a string yields its
\* characters, which have no get; no other value can be sliced
TopLocations(items) ==
    CASE items.t = "list" -> LocationLines(Top5(items.items), 1)
      [] items.t = "str" ->
           IF items.s = <<>> THEN Printed(<<>>)
           ELSE PrintedThenRaised(<<>>, "AttributeError")
      [] OTHER -> PrintedThenRaised(<<>>, "TypeError")

\* items = search_results if a list, search_results.get("results", []) if a
\* dict, else []
ExploreItems(search_results) ==
    CASE search_results.t = "list" -> search_results
      [] search_results.t = "obj" -> DGet(search_results, "results", JList(<<>>))
      [] OTHER -> JList(<<>>)

\* what a workflow prints of the search results: explore_understand the
\* locations (lines 85-93), the other four nothing
ExploreRendered(mode, search_results) ==
    IF mode = "understand"
    THEN After(Printed(<< <<"Found relevant locations:">> >>),
               After(TopLocations(ExploreItems(search_results)), Printed(<< <<>> >>)))
    ELSE Printed(<<>>)

\* print(chat_result["answer"]) between the rules
ExploreAnswer(mode, chat_result) ==
    << Rule, ExploreHeading(mode), Rule, PyStr(ValueOf(chat_result, "answer")), Rule >>

\* a workflow from its chat call on: ch is how client.chat ended
ExploreChatted(mode, out, sent, ch) ==
    IF ch.exc # ""
    THEN [Ended(1, ch.exc, out, sent \o ch.sent, TRUE) EXCEPT !.mode = mode]
    ELSE [Ended(0, "", out \o ExploreAnswer(mode, ch.value), sent \o ch.sent, TRUE)
            EXCEPT !.mode = mode]

\* a workflow once the search results are rendered
ExploreSearched(c, mode, query, names, o2, out, sent, shown) ==
    IF shown.exc # ""
    THEN [Ended(1, shown.exc, out \o shown.lines, sent, TRUE) EXCEPT !.mode = mode]
    ELSE ExploreChatted(mode, out \o shown.lines \o ExploreStep2(mode), sent,
                        Chat(c, ExploreQuestion(mode, query), Some(names), None, o2))

\* a workflow from its search call on: s is how client.search ended
ExploreFrom(c, mode, query, names, o2, out, s) ==
    IF s.exc # ""
    THEN [Ended(1, s.exc, out, s.sent, TRUE) EXCEPT !.mode = mode]
    ELSE ExploreSearched(c, mode, query, names, o2, out, s.sent,
                         ExploreRendered(mode, s.value))

\* explore_understand, explore_dependency, explore_pattern, explore_implement
\* and explore_debug: mode selects the function
ExploreWorkflow(c, mode, query, names, o1, o2) ==
    ExploreFrom(c, mode, query, names, o2,
                << <<"\n">> \o Rule, <<"CodeAlive Explorer">>, Rule \o <<"\n">> >>
                \o ExploreBanner(mode, query, names),
                Search(c, ExploreSearchQuery(mode, query), names,
                       ExploreSearchMode(mode), ExploreIncludeContent(mode), o1))

\* the function main() calls for a parsed mode (lines 315-324), "" for none
ExploreDispatch(mode) ==
    IF mode = "understand" THEN "explore_understand"
    ELSE IF mode = "dependency" THEN "explore_dependency"
    ELSE IF mode = "pattern" THEN "explore_pattern"
    ELSE IF mode = "implement" THEN "explore_implement"
    ELSE IF mode = "debug" THEN "explore_debug"
    ELSE ""

\* explore.py main(): argv is sys.argv[1:]
ExploreMain(argv, o1, o2) ==
    IF Len(argv) < 2 THEN Ended(1, "usage", <<>>, <<>>, FALSE)
    ELSE IF argv[1] = "--help" THEN HelpShown
    ELSE IF ExploreSources(Tail(argv)) = <<>> THEN Ended(1, "usage", <<>>, <<>>, FALSE)
    ELSE IF CliCtorError # "" THEN Ended(1, CliCtorError, <<>>, <<>>, TRUE)
    ELSE ExploreWorkflow(CliClient, ParseQuery(ChunksOf(argv[1])).mode,
                         ParseQuery(ChunksOf(argv[1])).query,
                         ExploreSources(Tail(argv)), o1, o2)

(* chat.py *)

\* the argument loop of chat.py and of the client's chat command: an option of
\* opts that has a value sets conversation_id, any other argument is a data source
RECURSIVE ChatArgs(_, _, _, _)
ChatArgs(args, opts, conversation_id, data_sources) ==
    IF args = <<>> THEN [conversation_id |-> conversation_id, data_sources |-> data_sources]
    ELSE IF Head(args) \in opts /\ Len(args) >= 2
    THEN ChatArgs(SubSeq(args, 3, Len(args)), opts, Some(<<args[2]>>), data_sources)
    ELSE ChatArgs(Tail(args), opts, conversation_id, Append(data_sources, Head(args)))

\* data_sources if data_sources else None
NamesOrNone(data_sources) == IF data_sources # <<>> THEN Some(data_sources) ELSE None

\* the lines chat.py prints for the dict chat() returned
ChatPrinted(result) ==
    << Rule, PyStr(ValueOf(result, "answer")), Rule >>
    \o IF JTruthy(DGet(result, "conversation_id", JNull))
       THEN << <<>>,
               <<"Conversation ID: ">> \o PyStr(ValueOf(result, "conversation_id")),
               <<"   Use --continue ">> \o PyStr(ValueOf(result, "conversation_id"))
               \o <<" to ask follow-up questions">> >>
       ELSE <<>>

\* the try block of chat.py from client.chat on: ch is how the call ended
ChatCalled(ch) ==
    IF ch.exc # "" THEN Ended(1, ch.exc, <<>>, ch.sent, TRUE)
    ELSE Ended(0, "", ChatPrinted(ch.value), ch.sent, TRUE)

\* chat.py main() once the arguments are parsed
ChatParsed(question, a, o1) ==
    IF ~Truthy(a.conversation_id) /\ a.data_sources = <<>>
    THEN Ended(1, "usage", <<>>, <<>>, FALSE)
    ELSE IF CliCtorError # "" THEN Ended(1, CliCtorError, <<>>, <<>>, TRUE)
    ELSE ChatCalled(Chat(CliClient, <<question>>, NamesOrNone(a.data_sources),
                         a.conversation_id, o1))

\* chat.py main(): argv is sys.argv[1:]
ChatMain(argv, o1) ==
    IF Len(argv) < 1 THEN Ended(1, "usage", <<>>, <<>>, FALSE)
    ELSE IF argv[1] = "--help" THEN HelpShown
    ELSE ChatParsed(argv[1],
                    ChatArgs(Tail(argv), {"--continue", "--conversation-id"}, None, <<>>),
                    o1)

(* search.py *)

\* the argument loop of search.py and of the client's search command: help is
\* whether --help is an option of the command and was met
RECURSIVE SearchArgs(_, _, _, _, _)
SearchArgs(args, helpOpt, mode, include_content, data_sources) ==
    IF args = <<>>
    THEN [help |-> FALSE, mode |-> mode, include_content |-> include_content,
          data_sources |-> data_sources]
    ELSE IF Head(args) = "--mode" /\ Len(args) >= 2
    THEN SearchArgs(SubSeq(args, 3, Len(args)), helpOpt, args[2], include_content, data_sources)
    ELSE IF Head(args) = "--include-content"
    THEN SearchArgs(Tail(args), helpOpt, mode, TRUE, data_sources)
    ELSE IF helpOpt /\ Head(args) = "--help"
    THEN [help |-> TRUE, mode |-> mode, include_content |-> include_content,
          data_sources |-> data_sources]
    ELSE SearchArgs(Tail(args), helpOpt, mode, include_content, Append(data_sources, Head(args)))

\* print(text) of a formatter's result, or the exception the formatter raised
PrintText(sent, text) ==
    IF text.exc # "" THEN Ended(1, text.exc, <<>>, sent, TRUE)
    ELSE Ended(0, "", <<text.text>>, sent, TRUE)

\* the try block of search.py from client.search on: s is how the call ended
SearchCalled(include_content, s) ==
    IF s.exc # "" THEN Ended(1, s.exc, <<>>, s.sent, TRUE)
    ELSE PrintText(s.sent, FormatSearchResults(s.value, include_content))

\* search.py main() once the arguments are parsed
SearchParsed(query, a, o1) ==
    IF a.help THEN HelpShown
    ELSE IF a.data_sources = <<>> THEN Ended(1, "usage", <<>>, <<>>, FALSE)
    ELSE IF CliCtorError # "" THEN Ended(1, CliCtorError, <<>>, <<>>, TRUE)
    ELSE SearchCalled(a.include_content,
                      Search(CliClient, query, a.data_sources, a.mode, a.include_content, o1))

\* search.py main(): argv is sys.argv[1:]
SearchMain(argv, o1) ==
    IF Len(argv) < 2 THEN Ended(1, "usage", <<>>, <<>>, FALSE)
    ELSE SearchParsed(argv[1], SearchArgs(Tail(argv), TRUE, "auto", FALSE, <<>>), o1)

(* datasources.py *)

\* f" [{state}]" if state and state != "Alive" else ""
StatusOf(state) ==
    IF JTruthy(state) /\ state # JStr(<<"Alive">>)
    THEN <<" [">> \o PyStr(state) \o <<"]">> ELSE <<>>

\* the lines of one workspace and of one repository
WorkspaceLines(ws) ==
    << <<"\n  ">> \o PyStr(DGet(ws, "name", JStr(<<"Unknown">>)))
       \o StatusOf(DGet(ws, "state", JStr(<<>>))),
       <<"     ">> \o PyStr(DGet(ws, "description", JStr(<<"No description">>))) >>
RepositoryLines(repo) ==
    WorkspaceLines(repo)
    \o IF JTruthy(DGet(repo, "url", JStr(<<>>)))
       THEN << <<"     ", "url: ">> \o PyStr(ValueOf(repo, "url")) >>
       ELSE <<>>

\* [ds for ds in datasources if ds.get("type") == type]
OfType(items, type) ==
    SelectSeq(items, LAMBDA ds : DGet(ds, "type", JNull) = JStr(<<type>>))

RECURSIVE EachWorkspace(_)
EachWorkspace(items) ==
    IF items = <<>> THEN <<>> ELSE WorkspaceLines(Head(items)) \o EachWorkspace(Tail(items))
RECURSIVE EachRepository(_)
EachRepository(items) ==
    IF items = <<>> THEN <<>> ELSE RepositoryLines(Head(items)) \o EachRepository(Tail(items))

\* "-" * 80
Dashes == <<"--------------------------------------------------------------------------------">>

\* the output list of format_datasources for a list of dicts (lines 43-84),
\* the pictographs left out
DatasourceLines(items) ==
    << <<"\nAvailable Data Sources (", ToString(Len(items)), " total)\n">>, Rule >>
    \o (IF OfType(items, "Workspace") # <<>>
        THEN << <<"\nWORKSPACES (search across multiple repos)">>, Dashes >>
             \o EachWorkspace(OfType(items, "Workspace"))
        ELSE <<>>)
    \o (IF OfType(items, "Repository") # <<>>
        THEN << <<"\n\nREPOSITORIES">>, Dashes >>
             \o EachRepository(OfType(items, "Repository"))
        ELSE <<>>)
    \o << <<"\n">> \o Rule,
          <<"\nUsage:">>,
          <<"   * Use names with search.py and chat.py">>,
          <<"   * Workspaces search ALL repos in the workspace">>,
          <<"   * Combine multiple data sources for broader search">>,
          <<"\nExamples:">>,
          <<"   python search.py 'auth logic' my-backend">>,
          <<"   python chat.py 'How does caching work?' workspace:platform-team">> >>

\* format_datasources(datasources, as_json): json.dumps(datasources, indent=2)
\* is the document's text, its line breaks and indentation left out
FormatDatasources(datasources, as_json) ==
    IF as_json THEN [exc |-> "", text |-> Dumps(datasources)]
    ELSE IF ~JTruthy(datasources)
    THEN [exc |-> "",
          text |-> <<"No data sources found.\nAdd repositories at https://app.codealive.ai">>]
    ELSE CASE datasources.t = "list" ->
                IF \E i \in 1..Len(datasources.items) : datasources.items[i].t # "obj"
                THEN [exc |-> "AttributeError", text |-> <<>>]
                ELSE [exc |-> "", text |-> Join(DatasourceLines(datasources.items))]
           [] datasources.t \in {"obj", "str"} -> [exc |-> "AttributeError", text |-> <<>>]
           [] OTHER -> [exc |-> "TypeError", text |-> <<>>]

\* the try block of datasources.py from client.get_datasources on
DatasourcesCalled(as_json, r) ==
    IF r.exc # "" THEN Ended(1, r.exc, <<>>, r.sent, TRUE)
    ELSE PrintText(r.sent, FormatDatasources(r.value, as_json))

\* datasources.py main(): argv is sys.argv[1:]
DatasourcesMain(argv, o1) ==
    IF \E i \in 1..Len(argv) : argv[i] = "--help" THEN HelpShown
    ELSE IF CliCtorError # "" THEN Ended(1, CliCtorError, <<>>, <<>>, TRUE)
    ELSE DatasourcesCalled(\E i \in 1..Len(argv) : argv[i] = "--json",
                           GetDatasources(CliClient,
                                          ~\E i \in 1..Len(argv) : argv[i] = "--all", o1))

(* api_client.py main(): the client's test command line *)

\* print(json.dumps(result, indent=2)) once a call has ended as r
ClientPrinted(r) ==
    IF r.exc # "" THEN Ended(1, r.exc, <<>>, r.sent, TRUE)
    ELSE Ended(0, "", <<Dumps(r.value)>>, r.sent, TRUE)

\* the lines the chat command prints for the dict chat() returned
ClientChatted(ch) ==
    IF ch.exc # "" THEN Ended(1, ch.exc, <<>>, ch.sent, TRUE)
    ELSE Ended(0, "",
               <<PyStr(ValueOf(ch.value, "answer"))>>
               \o (IF JTruthy(DGet(ch.value, "conversation_id", JNull))
                   THEN << <<"\nConversation ID: ">>
                           \o PyStr(ValueOf(ch.value, "conversation_id")) >>
                   ELSE <<>>),
               ch.sent, TRUE)

\* the search command once its arguments are parsed
ClientSearch(query, a, o1) ==
    ClientPrinted(Search(CliClient, query, a.data_sources, a.mode, a.include_content, o1))

\* the chat command once its arguments are parsed
ClientChat(question, a, o1) ==
    ClientChatted(Chat(CliClient, <<question>>, NamesOrNone(a.data_sources),
                       a.conversation_id, o1))

\* main(): argv is sys.argv[1:]; the constructor's exception is not caught and
\* ends the process with status 1
ClientMain(argv, o1) ==
    IF Len(argv) < 1 THEN Ended(1, "usage", <<>>, <<>>, FALSE)
    ELSE IF CliCtorError # "" THEN Ended(1, CliCtorError, <<>>, <<>>, TRUE)
    ELSE CASE argv[1] = "datasources" ->
                ClientPrinted(GetDatasources(CliClient,
                                             ~\E i \in 1..Len(argv) : argv[i] = "--all", o1))
           [] argv[1] = "search" ->
                IF Len(argv) < 3 THEN Ended(1, "usage", <<>>, <<>>, TRUE)
                ELSE ClientSearch(argv[2],
                                  SearchArgs(SubSeq(argv, 3, Len(argv)), FALSE, "auto",
                                             FALSE, <<>>),
                                  o1)
           [] argv[1] = "chat" ->
                IF Len(argv) < 3 THEN Ended(1, "usage", <<>>, <<>>, TRUE)
                ELSE ClientChat(argv[2],
                                ChatArgs(SubSeq(argv, 3, Len(argv)), {"--conversation-id"},
                                         None, <<>>),
                                o1)
           [] OTHER -> Ended(1, "unknown command", <<>>, <<>>, TRUE)

(* setup.py *)

VerifyTimeout == 15

\* read_existing_key(): the environment variable, else the platform's store
ReadExistingKey(env, system, st) ==
    IF Truthy(env) THEN env
    ELSE IF KeychainLookup(system, st).exc # "" THEN None
    ELSE KeychainLookup(system, st).val

\* the request verify_key hands to urlopen
VerifyRequest(api_key, base_url) ==
    [method |-> "GET",
     base |-> base_url,
     endpoint |-> "/api/datasources/alive",
     query |-> <<>>,
     authorization |-> <<"Bearer ">> \o api_key,
     contentType |-> "application/json",
     body |-> JNull,
     data |-> None,
     timeout |-> VerifyTimeout]

\* verify_key(api_key, base_url) when urlopen behaves as o: (success, message)
VerifyKey(api_key, base_url, o) ==
    [sent |-> <<VerifyRequest(api_key, base_url)>>,
     ok |-> o.kind = "ok" /\ JsonLoads(o.text).exc = "",
     msg |-> CASE o.kind = "ok" ->
                    IF JsonLoads(o.text).exc # "" THEN <<"JSONDecodeError">>
                    ELSE <<"Connected. ",
                           ToString(IF JsonLoads(o.text).v.t = "list"
                                    THEN Len(JsonLoads(o.text).v.items) ELSE 0),
                           IF JsonLoads(o.text).v.t = "list"
                              /\ Len(JsonLoads(o.text).v.items) = 1
                           THEN " data source" ELSE " data sources",
                           " available.">>
               [] o.kind = "http" ->
                    IF o.code = 401
                    THEN <<"Authentication failed - API key is invalid or expired.">>
                    ELSE <<"API returned HTTP ", ToString(o.code), ".">>
               [] OTHER -> <<"Cannot connect to ", base_url, ": ", o.reason>>]

\* store_key(api_key): whether the platform's tool stored the key; tool is how
\* the tool's run ended
StoreKey(system, tool) ==
    system \in {"Darwin", "Linux", "Windows"} /\ tool = "stored"

\* the api_key_arg, env_mode and help of the argument loop
SetupKeyArg(argv) ==
    IF \E i \in 1..(Len(argv) - 1) : argv[i] = "--key"
    THEN Some(<<argv[1 + CHOOSE i \in 1..(Len(argv) - 1) :
                       /\ argv[i] = "--key"
                       /\ \A j \in (i + 1)..(Len(argv) - 1) : argv[j] # "--key"]>>)
    ELSE None
SetupEnvMode(argv) == \E i \in 1..Len(argv) : argv[i] = "--env"
SetupHelp(argv) == \E i \in 1..Len(argv) : argv[i] = "--help"

\* step 3: the export hint in env mode, else store_key and the hint when it fails
SetupStore(api_key, env_mode, stored, sent) ==
    [Ended(0, "", <<>>, sent, FALSE)
       EXCEPT !.stored = IF ~env_mode /\ stored THEN Some(api_key) ELSE None,
              !.hint = env_mode \/ ~stored,
              !.mode = IF env_mode THEN "env" ELSE "store"]

\* a setup that goes on to step 3 whatever verify_key returned
SetupUnverified(api_key, env_mode, stored, sent, v) ==
    SetupStore(api_key, env_mode, stored, sent \o v.sent)

\* from the verification of the new key on: v is what verify_key returned
SetupVerified(api_key, env_mode, stored, sent, v) ==
    IF ~v.ok THEN Ended(1, "verification failed", <<>>, sent \o v.sent, FALSE)
    ELSE SetupStore(api_key, env_mode, stored, sent \o v.sent)

\* step 2 once the key is read: api_key is the argument or the stripped input
SetupWithKey(api_key, env_mode, stored, base_url, sent, o) ==
    IF api_key = <<>> THEN Ended(1, "no key", <<>>, sent, FALSE)
    ELSE SetupVerified(api_key, env_mode, stored, sent, VerifyKey(api_key, base_url, o))

\* step 2: the --key argument, else getpass, which EOFError or
\* KeyboardInterrupt cancel
SetupAsk(argv, prompt, stored, base_url, sent, o) ==
    IF Truthy(SetupKeyArg(argv))
    THEN SetupWithKey(SetupKeyArg(argv).v, SetupEnvMode(argv), stored, base_url, sent, o)
    ELSE IF prompt.exc # ""
    THEN [Ended(1, "cancelled", <<>>, sent, FALSE) EXCEPT !.asked = TRUE]
    ELSE [SetupWithKey(Strip(prompt.text), SetupEnvMode(argv), stored, base_url, sent, o)
            EXCEPT !.asked = TRUE]

\* a setup that verifies the key it found a second time before it asks
SetupExistingTwice(argv, prompt, stored, base_url, o2, v) ==
    IF v.ok THEN [Ended(0, "", <<>>, v.sent, FALSE) EXCEPT !.mode = "existing"]
    ELSE SetupAsk(argv, prompt, stored, base_url, v.sent \o v.sent, o2)

\* step 1 with an existing key: v is what verify_key returned for it
SetupExisting(argv, prompt, stored, base_url, o2, v) ==
    IF v.ok THEN [Ended(0, "", <<>>, v.sent, FALSE) EXCEPT !.mode = "existing"]
    ELSE SetupAsk(argv, prompt, stored, base_url, v.sent, o2)

\* setup.py main(): argv is sys.argv[1:], stored what store_key returns
SetupMain(argv, prompt, stored, existing, base_url, o1, o2) ==
    IF SetupHelp(argv) THEN HelpShown
    ELSE IF Truthy(existing)
    THEN SetupExisting(argv, prompt, stored, base_url, o2,
                       VerifyKey(existing.v, base_url, o1))
    ELSE SetupAsk(argv, prompt, stored, base_url, <<>>, o1)

\* the formatter's inputs: every sequence of at most MaxItems items
MaxItems == 2
FormatterItems == SearchResultItems \cup MalformedItems
ItemSeqs == UNION { [1..n -> FormatterItems] : n \in 0..MaxItems }

\* a process that has a search response to render, as a bare list of items
\* and as an object whose results field holds them
InitFormat ==
    /\ platformSystem = "Linux"
    /\ store = StoreOutcome("", "FileNotFoundError", 0, <<>>, FALSE, <<>>)
    /\ envKey = None
    /\ envBase = NoBase
    /\ given = [api_key |-> None, base_url |-> ""]
    /\ client = NoClient
    /\ consulted = <<>>
    /\ ctorError = ""
    /\ requests = <<>>
    /\ calls = 0
    /\ last = NoCall
    /\ fmt \in { [state |-> "input", items |-> its, include_content |-> inc,
                   bare |-> NoText, envelope |-> NoText] :
                  its \in ItemSeqs, inc \in BOOLEAN }
    /\ proc = NoProc
    /\ pure = NoPure

\* format_search_results applied to both shapes of the response
FormatBoth ==
    /\ fmt.state = "input"
    /\ fmt' = [fmt EXCEPT
                 !.state = "done",
                 !.bare = FormatSearchResults(JList(fmt.items), fmt.include_content),
                 !.envelope = FormatSearchResults(JObj(<< <<"results", JList(fmt.items)>> >>),
                                                  fmt.include_content)]
    /\ UNCHANGED <<platformSystem, store, envKey, envBase, given, client, consulted,
                   ctorError, requests, calls, last, proc, pure>>

NextFormat == FormatBoth

SpecFormat == InitFormat /\ [][NextFormat]_vars

----------------------------------------------------------------------------
(* Calls on a constructed client                                           *)

MaxCalls == 1

Questions == { <<"How does auth work?">> }
Queries == { "auth flow" }
OptionalDataSources ==
    { None, Some(<<>>), Some(<<"my-repo">>), Some(<<"my-repo", "workspace:team">>) }
DataSourceLists == { <<>>, <<"my-repo">>, <<"my-repo", "workspace:team">> }
ConversationIds == { None, Some(<<>>), Some(<<"conv_abc123">>) }
SearchModes == { "auto", "deep" }

ErrorCodes == { 400, 401, 403, 404, 429, 500, 503 }
ErrorTexts == { <<>> } \cup NonJsonTexts \cup { Dumps(d) : d \in ErrorDocs }
OkTexts == { <<>>, <<"Bad", " ", "Gateway">> } \cup { Dumps(d) : d \in ChatDocs \cup ListDocs }

\* everything urlopen can do
AllOutcomes ==
    { Ok(t) : t \in OkTexts }
    \cup { HttpError(code, t) : code \in ErrorCodes, t \in ErrorTexts }
    \cup { UrlError(r) : r \in { "Connection refused", "timed out" } }

\* the failures in the runs of the domain operations
DomainFailures ==
    { HttpError(401, Dumps(JObj(<< <<"message", JStr(<<"bad key">>)>> >>))),
      HttpError(429, <<>>),
      UrlError("Connection refused") }

\* what urlopen does in the runs of chat
ChatOutcomes ==
    { Ok(t) : t \in { <<>>, <<"Bad", " ", "Gateway">> } \cup { Dumps(d) : d \in ChatDocs } }
    \cup DomainFailures

\* what urlopen does in the runs of search and get_datasources
ListOutcomes ==
    { Ok(t) : t \in { <<>> } \cup { Dumps(d) : d \in ListDocs } }
    \cup DomainFailures

\* the effect of one call with outcome r on the log and the call record
Record(call, r) ==
    /\ requests' = requests \o r.sent
    /\ calls' = calls + 1
    /\ last' = [call EXCEPT !.before = Len(requests), !.exc = r.exc,
                            !.msg = r.msg, !.value = r.value]
    /\ UNCHANGED <<platformSystem, store, envKey, envBase, given, client,
                   consulted, ctorError, fmt, proc, pure>>

\* client.chat(question, data_sources, conversation_id)
CallChat ==
    /\ client.state = "ready"
    /\ calls < MaxCalls
    /\ \E q \in Questions, ds \in OptionalDataSources, cid \in ConversationIds,
          o \in ChatOutcomes :
         Record([NoCall EXCEPT !.op = "chat", !.text = q, !.data_sources = ds,
                               !.conversation_id = cid, !.o = o],
                Chat(client, q, ds, cid, o))

\* client.search(query, data_sources, mode, include_content)
CallSearch ==
    /\ client.state = "ready"
    /\ calls < MaxCalls
    /\ \E q \in Queries, ds \in DataSourceLists, mode \in SearchModes,
          inc \in BOOLEAN, o \in ListOutcomes :
         Record([NoCall EXCEPT !.op = "search", !.text = <<q>>,
                               !.data_sources = Some(ds), !.mode = mode,
                               !.include_content = inc, !.o = o],
                Search(client, q, ds, mode, inc, o))

\* client.get_datasources(alive_only)
CallGetDatasources ==
    /\ client.state = "ready"
    /\ calls < MaxCalls
    /\ \E alive \in BOOLEAN, o \in ListOutcomes :
         Record([NoCall EXCEPT !.op = "get_datasources", !.alive_only = alive, !.o = o],
                GetDatasources(client, alive, o))

\* the (method, endpoint, params, body) the domain operations pass to _make_request
RequestShapes ==
    { [method |-> "GET", endpoint |-> "/api/datasources/alive", params |-> <<>>, body |-> JNull],
      [method |-> "GET", endpoint |-> "/api/datasources/all", params |-> <<>>, body |-> JNull],
      [method |-> "GET", endpoint |-> "/api/search",
       params |-> << <<"Query", PStr("auth flow")>>, <<"Mode", PStr("auto")>>,
                     <<"IncludeContent", PStr("false")>>,
                     <<"Names", PList(<<"my-repo">>)>> >>,
       body |-> JNull],
      [method |-> "POST", endpoint |-> "/api/chat/completions", params |-> <<>>,
       body |-> ChatBody(<<"How does auth work?">>, Some(<<"my-repo">>), None).v] }

\* client._make_request(method, endpoint, params, body)
CallMakeRequest ==
    /\ client.state = "ready"
    /\ calls < MaxCalls
    /\ \E s \in RequestShapes, o \in AllOutcomes :
         Record([NoCall EXCEPT !.op = "request", !.method = s.method,
                               !.endpoint = s.endpoint, !.o = o],
                MakeRequest(client, s.method, s.endpoint, s.params, s.body, o))

\* a client constructed without arguments where the environment holds the key
Init ==
    /\ platformSystem = "Linux"
    /\ store \in StoresOf(platformSystem)
    /\ store.exc = "FileNotFoundError"
    /\ envKey = Some(<<"sk-env">>)
    /\ envBase \in EnvBases
    /\ given = [api_key |-> None, base_url |-> ""]
    /\ consulted = ResolveKey(None, envKey, platformSystem, store).consulted
    /\ client = [state |-> "ready",
                 api_key |-> ResolveKey(None, envKey, platformSystem, store).key,
                 base_url |-> ResolveBaseUrl("", envBase),
                 timeout |-> DefaultTimeout]
    /\ ctorError = ""
    /\ requests = <<>>
    /\ calls = 0
    /\ last = NoCall
    /\ fmt = NoFmt
    /\ proc = NoProc
    /\ pure = NoPure

Next == CallChat \/ CallSearch \/ CallGetDatasources

Spec == Init /\ [][Next]_vars

NextHttp == CallMakeRequest

SpecHttp == Init /\ [][NextHttp]_vars

----------------------------------------------------------------------------
(* Runs of the front ends                                                  *)

\* the environments of the runs: no key anywhere, a key in the environment
\* variable, a key in the store only
CliStores(system) ==
    IF system = "Linux"
    THEN { StoreOutcome("", "FileNotFoundError", 0, <<>>, FALSE, <<>>),
           StoreOutcome(SERVICE_NAME, "", 0, <<"sk-store", "\n">>, FALSE, <<>>) }
    ELSE { StoreOutcome(SERVICE_NAME, "", 0, <<>>, FALSE, <<>>),
           StoreOutcome(SERVICE_NAME, "", 0, <<>>, TRUE, <<"sk-win">>) }

InitCli ==
    /\ platformSystem \in {"Linux", "Windows"}
    /\ store \in CliStores(platformSystem)
    /\ envKey \in { None, Some(<<"sk-env">>) }
    /\ envBase = NoBase
    /\ given = [api_key |-> None, base_url |-> ""]
    /\ client = NoClient
    /\ consulted = <<>>
    /\ ctorError = ""
    /\ requests = <<>>
    /\ calls = 0
    /\ last = NoCall
    /\ fmt = NoFmt
    /\ proc = NoProc
    /\ pure = NoPure

\* what urlopen does with the search request and the chat request of explore
ExploreSearchOutcomes ==
    { Ok(t) : t \in { <<>>, <<"Bad", " ", "Gateway">> } \cup { Dumps(d) : d \in SearchDocs } }
    \cup DomainFailures
ExploreChatOutcomes ==
    { Ok(<<>>),
      Ok(Dumps(JObj(<< <<"choices", JList(<<Choice(JStr(<<"X">>))>>)>>,
                       <<"id", JStr(<<"abc">>)>> >>))),
      Ok(Dumps(JObj(<< <<"choices", JList(<<>>)>> >>))) }
    \cup DomainFailures

ExploreArgvs ==
    { <<>>, <<"--help">>, <<"--help", "my-repo">>, <<"auth flow">>,
      <<"auth flow", "my-repo">>, <<"auth flow", "--workspace", "team">>,
      <<"auth flow", "my-repo", "--workspace">>,
      <<"understand:auth flow", "my-repo">>, <<"dependency:lodash", "my-repo">>,
      <<"pattern: retry ", "my-repo", "a-repo">>, <<"implement:rate limiting", "my-repo">>,
      <<"debug:slow queries", "my-repo">>, <<"Pattern:retry", "my-repo">>,
      <<"fix:bug", "my-repo">> }

\* python explore.py argv
RunExplore ==
    \E argv \in ExploreArgvs, o1 \in ExploreSearchOutcomes, o2 \in ExploreChatOutcomes :
        Exec("explore", argv, o1, o2, NoPrompt, ExploreMain(argv, o1, o2))

NextExplore == RunExplore

SpecExplore == InitCli /\ [][NextExplore]_vars

\* the arguments, the answers of the server and the input at the prompt in
\* the runs of the front ends
CliQuestion == "How does auth work?"
ChatArgvs ==
    { <<>>, <<"--help">>, <<CliQuestion>>, <<CliQuestion, "my-repo">>,
      <<CliQuestion, "--continue", "conv_abc123">>,
      <<CliQuestion, "my-repo", "--conversation-id", "conv_abc123">>,
      <<CliQuestion, "my-repo", "workspace:team">> }
SearchArgvs ==
    { <<>>, <<"--help">>, <<"auth flow">>, <<"auth flow", "--help">>,
      <<"auth flow", "my-repo">>, <<"auth flow", "--include-content">>,
      <<"auth flow", "my-repo", "--mode", "deep", "--include-content">> }
DatasourcesArgvs ==
    { <<>>, <<"--all">>, <<"--json">>, <<"--all", "--json">>, <<"--help">> }
ClientArgvs ==
    { <<>>, <<"--help">>, <<"datasources">>, <<"datasources", "--all">>,
      <<"search">>, <<"search", "auth flow">>, <<"search", "auth flow", "my-repo">>,
      <<"search", "auth flow", "--include-content">>,
      <<"chat", CliQuestion>>, <<"chat", CliQuestion, "my-repo">>,
      <<"chat", CliQuestion, "--conversation-id", "conv_abc123">> }
SetupArgvs ==
    { <<>>, <<"--env">>, <<"--key">>, <<"--key", "sk-new">>,
      <<"--key", "sk-new", "--env">>, <<"--help">> }
CliSearchOutcomes == ListOutcomes \cup { Ok(Dumps(d)) : d \in SearchDocs }
ClientOutcomes ==
    ListOutcomes
    \cup { Ok(Dumps(JObj(<< <<"choices", JList(<<Choice(JStr(<<"X">>))>>)>>,
                            <<"id", JStr(<<"abc">>)>> >>))) }
VerifyOutcomes ==
    { Ok(Dumps(DataSourceList)), Ok(<<>>), HttpError(401, <<>>), HttpError(500, <<>>),
      UrlError("Connection refused") }
Prompts ==
    { [exc |-> "", text |-> <<" ", "sk-typed">>], [exc |-> "", text |-> <<" ">>],
      [exc |-> "EOFError", text |-> <<>>], [exc |-> "KeyboardInterrupt", text |-> <<>>] }
StoreTools == { "stored", "failed", "FileNotFoundError" }

\* python chat.py argv
RunChat ==
    \E argv \in ChatArgvs, o1 \in ChatOutcomes :
        Exec("chat", argv, o1, NoOutcome, NoPrompt, ChatMain(argv, o1))

\* python search.py argv
RunSearch ==
    \E argv \in SearchArgvs, o1 \in CliSearchOutcomes :
        Exec("search", argv, o1, NoOutcome, NoPrompt, SearchMain(argv, o1))

\* python datasources.py argv
RunDatasources ==
    \E argv \in DatasourcesArgvs, o1 \in ListOutcomes :
        Exec("datasources", argv, o1, NoOutcome, NoPrompt, DatasourcesMain(argv, o1))

\* python api_client.py argv
RunClient ==
    \E argv \in ClientArgvs, o1 \in ClientOutcomes :
        Exec("api_client", argv, o1, NoOutcome, NoPrompt, ClientMain(argv, o1))

\* python setup.py argv
RunSetup ==
    \E argv \in SetupArgvs, prompt \in Prompts, tool \in StoreTools,
       o1 \in VerifyOutcomes, o2 \in VerifyOutcomes :
        Exec("setup", argv, o1, o2, prompt,
             SetupMain(argv, prompt, StoreKey(platformSystem, tool),
                       ReadExistingKey(envKey, platformSystem, store),
                       IF envBase.some THEN envBase.v ELSE DefaultBaseUrl, o1, o2))

NextCli ==
    \/ RunChat
    \/ RunSearch
    \/ RunDatasources
    \/ RunExplore
    \/ RunSetup
    \/ RunCheckAuth
    \/ RunClient

SpecCli == InitCli /\ [][NextCli]_vars

\* the queries parse_query is applied to: a word, then a colon, a space and a
\* colon, or nothing, then the rest; and the same after a leading space
QueryWords ==
    { "understand", "dependency", "pattern", "implement", "debug", "fix",
      "understanding", "patterns" }
    \cup { p[1] : p \in Spellings }
QueryRests == { <<>>, <<"auth flow">>, <<" ", "auth flow", " ">>, <<" ", "a", ":", "b", "\n">> }
ParseQueries ==
    { <<w, ":">> \o r : w \in QueryWords, r \in QueryRests }
    \cup { <<w, " ", ":">> \o r : w \in QueryWords, r \in QueryRests }
    \cup { <<w>> \o r : w \in QueryWords, r \in QueryRests }
    \cup { <<" ", w, ":">> \o r : w \in QueryWords, r \in QueryRests }

InitParse ==
    /\ platformSystem = "Linux"
    /\ store = StoreOutcome("", "FileNotFoundError", 0, <<>>, FALSE, <<>>)
    /\ envKey = None
    /\ envBase = NoBase
    /\ given = [api_key |-> None, base_url |-> ""]
    /\ client = NoClient
    /\ consulted = <<>>
    /\ ctorError = ""
    /\ requests = <<>>
    /\ calls = 0
    /\ last = NoCall
    /\ fmt = NoFmt
    /\ proc = NoProc
    /\ pure \in { [state |-> "input", fn |-> "parse_query", arg |-> q, out |-> <<>>] :
                   q \in ParseQueries }

\* mode, actual_query = parse_query(query) and the dispatch on mode of main()
ParseAndDispatch ==
    /\ pure.state = "input"
    /\ pure.fn = "parse_query"
    /\ pure' = [pure EXCEPT
                  !.state = "done",
                  !.out = [mode |-> ParseQuery(pure.arg).mode,
                           query |-> ParseQuery(pure.arg).query,
                           workflow |-> ExploreDispatch(ParseQuery(pure.arg).mode)]]
    /\ UNCHANGED <<platformSystem, store, envKey, envBase, given, client, consulted,
                   ctorError, requests, calls, last, fmt, proc>>

NextParse == ParseAndDispatch

SpecParse == InitParse /\ [][NextParse]_vars

\* find_key(), read_existing_key() and the key CodeAliveClient() resolves, each
\* applied to the environment of the process
ApplyResolvers ==
    /\ pure.state = "none"
    /\ pure' = [state |-> "done", fn |-> "resolve", arg |-> <<>>,
                out |-> [found |-> FindKey(envKey, platformSystem, store),
                         existing |-> ReadExistingKey(envKey, platformSystem, store),
                         resolved |-> ResolveKey(None, envKey, platformSystem, store)]]
    /\ UNCHANGED <<platformSystem, store, envKey, envBase, given, client, consulted,
                   ctorError, requests, calls, last, fmt, proc>>

NextResolvers == ApplyResolvers

SpecResolvers == InitCred /\ [][NextResolvers]_vars

\* the data sources format_datasources is applied to: repositories, a
\* workspace, an entry of another type and an entry without a type
SourceEntries ==
    { DataSource("backend", "Repository", "Alive"),
      DataSource("indexing", "Repository", "Processing"),
      DataSource("team", "Workspace", "Alive"),
      DataSource("docs", "Folder", "Alive"),
      JObj(<< <<"name", JStr(<<"untyped">>)>>,
              <<"description", JStr(<<"indexed code">>)>>,
              <<"state", JStr(<<"Alive">>)>> >>) }
MaxSources == 3
SourceSeqs == UNION { [1..n -> SourceEntries] : n \in 0..MaxSources }

InitDatasources ==
    /\ platformSystem = "Linux"
    /\ store = StoreOutcome("", "FileNotFoundError", 0, <<>>, FALSE, <<>>)
    /\ envKey = None
    /\ envBase = NoBase
    /\ given = [api_key |-> None, base_url |-> ""]
    /\ client = NoClient
    /\ consulted = <<>>
    /\ ctorError = ""
    /\ requests = <<>>
    /\ calls = 0
    /\ last = NoCall
    /\ fmt = NoFmt
    /\ proc = NoProc
    /\ pure \in { [state |-> "input", fn |-> "format_datasources", arg |-> items,
                    out |-> <<>>] : items \in SourceSeqs }

\* format_datasources(datasources) with as_json left at False
ApplyFormatDatasources ==
    /\ pure.state = "input"
    /\ pure.fn = "format_datasources"
    /\ pure' = [pure EXCEPT !.state = "done",
                            !.out = FormatDatasources(JList(pure.arg), FALSE)]
    /\ UNCHANGED <<platformSystem, store, envKey, envBase, given, client, consulted,
                   ctorError, requests, calls, last, fmt, proc>>

NextDatasources == ApplyFormatDatasources

SpecDatasources == InitDatasources /\ [][NextDatasources]_vars

\* the candidate keys of a result's file path and start line, and the result
\* that carries the keys pk and lk, each with a value of its own
PathKeys == {"location", "filePath", "file", "path"}
LineKeys == {"range", "startLine", "lineNumber"}
ItemOf(pk, lk) ==
    JObj((IF "location" \in pk \/ "range" \in lk
          THEN << <<"location",
                    JObj((IF "location" \in pk
                          THEN << <<"path", JStr(<<"src/nested.py">>)>> >> ELSE <<>>)
                         \o (IF "range" \in lk
                             THEN << <<"range",
                                       JObj(<< <<"start",
                                                 JObj(<< <<"line", JNum(10)>> >>)>> >>)>> >>
                             ELSE <<>>))>> >>
          ELSE <<>>)
         \o (IF "filePath" \in pk THEN << <<"filePath", JStr(<<"src/flat.py">>)>> >> ELSE <<>>)
         \o (IF "file" \in pk THEN << <<"file", JStr(<<"src/file.py">>)>> >> ELSE <<>>)
         \o (IF "path" \in pk THEN << <<"path", JStr(<<"src/path.py">>)>> >> ELSE <<>>)
         \o (IF "startLine" \in lk THEN << <<"startLine", JNum(20)>> >> ELSE <<>>)
         \o (IF "lineNumber" \in lk THEN << <<"lineNumber", JNum(30)>> >> ELSE <<>>))
CandidateItems == { ItemOf(pk, lk) : pk \in SUBSET PathKeys, lk \in SUBSET LineKeys }

\* the responses the two front ends parse: a bare list, an object with
\* results, an object without results, and the empty values
ParserResponses ==
    { JList(<<i>>) : i \in CandidateItems }
    \cup { JObj(<< <<"results", JList(<<i>>)>> >>) : i \in CandidateItems }
    \cup CandidateItems
    \cup { JList(<<ItemOf({"location"}, {"range"}), ItemOf({"filePath"}, {"startLine"})>>),
           JObj(<< <<"results", JList(<<>>)>> >>), JList(<<>>), JNull }

InitParsers ==
    /\ platformSystem = "Linux"
    /\ store = StoreOutcome("", "FileNotFoundError", 0, <<>>, FALSE, <<>>)
    /\ envKey = None
    /\ envBase = NoBase
    /\ given = [api_key |-> None, base_url |-> ""]
    /\ client = NoClient
    /\ consulted = <<>>
    /\ ctorError = ""
    /\ requests = <<>>
    /\ calls = 0
    /\ last = NoCall
    /\ fmt = NoFmt
    /\ proc = NoProc
    /\ pure \in { [state |-> "input", fn |-> "parsers", arg |-> r, out |-> <<>>] :
                   r \in ParserResponses }

\* the items format_search_results renders: none for a falsy response
\* (search.py lines 36-37), else the items of lines 42-47
SearchItemsOf(results) ==
    IF ~JTruthy(results) THEN <<>>
    ELSE IF SearchItems(results).exc # "" \/ SearchItems(results).v.t # "list" THEN <<>>
    ELSE SearchItems(results).v.items

\* file_path and start_line of one result in search.py (lines 54-57) and
\* file_path and line of one result in explore.py (lines 88-91)
SearchLocation(result) ==
    [path |-> FilePathOf(result, PyGet(Val(result), "location", JObj(<<>>))),
     line |-> StartLineOf(result, PyGet(PyGet(Val(result), "location", JObj(<<>>)),
                                        "range", JObj(<<>>)))]
ExploreLocation(result) ==
    [path |-> ExploreFilePath(result, PyGet(Val(result), "location", JObj(<<>>))),
     line |-> ExploreLine(result, PyGet(PyGet(Val(result), "location", JObj(<<>>)),
                                        "range", JObj(<<>>)))]

\* both front ends' parse of the same response
ApplyParsers ==
    /\ pure.state = "input"
    /\ pure.fn = "parsers"
    /\ pure' = [pure EXCEPT
                  !.state = "done",
                  !.out = [searchItems |-> SearchItemsOf(pure.arg),
                           exploreItems |-> ExploreItems(pure.arg).items,
                           search |-> [i \in 1..Len(SearchItemsOf(pure.arg)) |->
                                         SearchLocation(SearchItemsOf(pure.arg)[i])],
                           explore |-> [i \in 1..Len(ExploreItems(pure.arg).items) |->
                                          ExploreLocation(ExploreItems(pure.arg).items[i])]]]
    /\ UNCHANGED <<platformSystem, store, envKey, envBase, given, client, consulted,
                   ctorError, requests, calls, last, fmt, proc>>

NextParsers == ApplyParsers

SpecParsers == InitParsers /\ [][NextParsers]_vars

----------------------------------------------------------------------------
(* Properties                                                              *)

\* the requests the last call handed to urlopen
SentByLast == SubSeq(requests, last.before + 1, Len(requests))


\* C1: chat() called with a non-empty conversation_id and a non-empty
\* data_sources list sends exactly one request, whose JSON body has the key
\* conversationId with the given id and has no key names.
C1_ContinuationIgnoresDataSources ==
    (last.op = "chat" /\ Truthy(last.conversation_id) /\ Truthy(last.data_sources))
    => /\ Len(SentByLast) = 1
       /\ SentByLast[1].data.some
       /\ HasKey(SentByLast[1].body, "conversationId")
       /\ ValueOf(SentByLast[1].body, "conversationId") = JStr(last.conversation_id.v)
       /\ ~HasKey(SentByLast[1].body, "names")

C1_Witness ==
    /\ last.op = "chat"
    /\ last.conversation_id = Some(<<"conv_abc123">>)
    /\ last.data_sources = Some(<<"my-repo", "workspace:team">>)
    /\ Len(requests) = 1
    /\ last.exc = ""

\* C2: chat() called with neither a usable conversation_id nor a usable
\* data_sources list (each absent or empty) raises ValueError and hands no
\* request to urlopen.
C2_NeitherIsInvalidArgument ==
    (last.op = "chat" /\ ~Truthy(last.conversation_id) /\ ~Truthy(last.data_sources))
    => /\ last.exc = "ValueError"
       /\ SentByLast = <<>>

C2_Witness ==
    /\ last.op = "chat"
    /\ last.conversation_id = Some(<<>>)
    /\ last.data_sources = Some(<<>>)
    /\ last.exc = "ValueError"
    /\ requests = <<>>

\* C3: search() called with an empty data_sources list raises ValueError and
\* hands no request to urlopen.
C3_SearchRejectsEmptyDataSources ==
    (last.op = "search" /\ last.data_sources = Some(<<>>))
    => /\ last.exc = "ValueError"
       /\ SentByLast = <<>>

\* the secret the platform's credential store reports
StoredSecret ==
    IF platformSystem = "Windows" THEN store.blob ELSE Strip(store.stdout)

\* C4: the resolved key is the explicit argument when that is non-empty, else
\* the environment variable when that is non-empty, else the stored secret;
\* no source after the first hit is consulted, and the key is one source's
\* value unchanged.
C4_FirstHitWins ==
    client.state # "none"
    => /\ Truthy(given.api_key)
            => /\ client.state = "ready"
               /\ client.api_key = given.api_key
               /\ consulted = <<"explicit">>
       /\ (~Truthy(given.api_key) /\ Truthy(envKey))
            => /\ client.state = "ready"
               /\ client.api_key = envKey
               /\ consulted = <<"explicit", "env">>
       /\ (~Truthy(given.api_key) /\ ~Truthy(envKey) /\ client.state = "ready")
            => /\ client.api_key = Some(StoredSecret)
               /\ consulted = <<"explicit", "env", "store">>

C4_Witness ==
    /\ client.state = "ready"
    /\ given.api_key = Some(<<"sk-arg">>)
    /\ envKey = Some(<<"sk-env">>)
    /\ store.exc = "" /\ store.rc = 0 /\ store.stdout = <<"sk-store", "\n">>
    /\ client.api_key = Some(<<"sk-arg">>)

\* the store yields no non-empty string: the tool is missing, times out or
\* raises, exits non-zero, prints nothing but whitespace, or holds no entry
StoreYieldsNothing ==
    \/ store.exc # ""
    \/ platformSystem \in {"Darwin", "Linux"} /\ (store.rc # 0 \/ Strip(store.stdout) = <<>>)
    \/ platformSystem = "Windows" /\ (~store.credRead \/ store.blob = <<>>)
    \/ platformSystem \notin {"Darwin", "Linux", "Windows"}

\* C5: when neither the explicit argument, nor the environment variable, nor
\* the credential store yields a non-empty string, construction fails with
\* ValueError (the key-not-configured error) and with no other error, and no
\* request is handed to urlopen.
C5_CredentialNotFound ==
    (client.state # "none" /\ ~Truthy(given.api_key) /\ ~Truthy(envKey)
     /\ StoreYieldsNothing)
    => /\ client.state = "failed"
       /\ ctorError = "ValueError"
       /\ requests = <<>>

C5_Witness ==
    /\ client.state = "failed"
    /\ given.api_key = Some(<<>>)
    /\ envKey = None
    /\ store.exc = "TimeoutExpired"
    /\ ctorError = "ValueError"

\* C6: for every endpoint and every error body, an HTTP 401 response makes
\* _make_request raise the authentication error, whose message contains 401
\* and the base URL followed by /settings/api-keys.
C6_Unauthorized ==
    (last.op = "request" /\ last.o.kind = "http" /\ last.o.code = 401)
    => /\ last.exc = "Exception"
       /\ last.msg # <<>>
       /\ Head(last.msg) = "Authentication failed ("
       /\ Contains(last.msg, "401")
       /\ Followed(last.msg, client.base_url, "/settings/api-keys")

KindOf(msg) ==
    IF msg = <<>> THEN "none"
    ELSE CASE Head(msg) = "Authentication failed (" -> "AuthenticationFailed"
           [] Head(msg) = "Access denied (" -> "AccessDenied"
           [] Head(msg) = "Not found (" -> "NotFound"
           [] Head(msg) = "Rate limit exceeded (" -> "RateLimited"
           [] Head(msg) = "Server error (" -> "ServerError"
           [] Head(msg) = "API request failed (" -> "RequestFailed"
           [] Head(msg) = "Cannot connect to " -> "ConnectionFailed"
           [] OTHER -> "none"

\* the error kind the table gives for what urlopen did
KindFor(o) ==
    IF o.kind = "url" THEN "ConnectionFailed"
    ELSE CASE o.code = 401 -> "AuthenticationFailed"
           [] o.code = 403 -> "AccessDenied"
           [] o.code = 404 -> "NotFound"
           [] o.code = 429 -> "RateLimited"
           [] o.code >= 500 -> "ServerError"
           [] OTHER -> "RequestFailed"

\* C8: every failed request (any HTTP error status, any connection failure)
\* raises exactly the error kind of the table, and the ServerError and
\* RequestFailed messages include the numeric status.
C8_ErrorMappingTotal ==
    (last.op = "request" /\ last.o.kind \in {"http", "url"})
    => /\ last.exc = "Exception"
       /\ KindOf(last.msg) = KindFor(last.o)
       /\ KindFor(last.o) \in {"ServerError", "RequestFailed"}
            => Contains(last.msg, ToString(last.o.code))

\* the documents with a first choice that has a message with content, and an id
WellFormedChat(d) ==
    /\ d.t = "obj" /\ HasKey(d, "choices") /\ HasKey(d, "id")
    /\ ValueOf(d, "choices").t = "list" /\ ValueOf(d, "choices").items # <<>>
    /\ ValueOf(d, "choices").items[1].t = "obj"
    /\ HasKey(ValueOf(d, "choices").items[1], "message")
    /\ ValueOf(ValueOf(d, "choices").items[1], "message").t = "obj"
    /\ HasKey(ValueOf(ValueOf(d, "choices").items[1], "message"), "content")

ContentOf(d) == ValueOf(ValueOf(ValueOf(d, "choices").items[1], "message"), "content")

\* the last call is a chat() that sent its request and was answered with text
ChatAnswered(text) ==
    /\ last.op = "chat"
    /\ Truthy(last.conversation_id) \/ Truthy(last.data_sources)
    /\ last.o = Ok(text)

\* C9: for a response whose first choice has message.content = X and whose
\* id = I, chat() returns answer = X and conversation_id = I.
C9_AnswerAndConversationId ==
    \A d \in ChatDocs :
        (WellFormedChat(d) /\ ChatAnswered(Dumps(d)))
        => /\ last.exc = ""
           /\ ValueOf(last.value, "answer") = ContentOf(d)
           /\ ValueOf(last.value, "conversation_id") = ValueOf(d, "id")

C9_Witness ==
    /\ ChatAnswered(Dumps(JObj(<< <<"choices", JList(<<Choice(JStr(<<"X">>))>>)>>,
                                  <<"id", JStr(<<"abc">>)>> >>)))
    /\ last.exc = ""
    /\ ValueOf(last.value, "answer") = JStr(<<"X">>)
    /\ ValueOf(last.value, "conversation_id") = JStr(<<"abc">>)

\* C10: for a response object without the key choices, the empty object of an
\* empty response body included, chat() returns answer = "" and does not raise.
C10_MissingChoices ==
    /\ ChatAnswered(<<>>)
         => last.exc = "" /\ ValueOf(last.value, "answer") = JStr(<<>>)
    /\ \A d \in ChatDocs :
         (d.t = "obj" /\ ~HasKey(d, "choices") /\ ChatAnswered(Dumps(d)))
         => last.exc = "" /\ ValueOf(last.value, "answer") = JStr(<<>>)

C10_Witness ==
    /\ ChatAnswered(Dumps(JObj(<< <<"id", JStr(<<"abc">>)>> >>)))
    /\ last.exc = ""
    /\ ValueOf(last.value, "answer") = JStr(<<>>)

\* the response shapes of a chat() that are not the expected one: choices is
\* an empty list, the first choice has no message, the message has no
\* content, or the decoded response is not an object
UnexpectedChat(d) ==
    \/ d.t # "obj"
    \/ /\ d.t = "obj" /\ HasKey(d, "choices")
       /\ \/ ValueOf(d, "choices") = JList(<<>>)
          \/ /\ ValueOf(d, "choices").t = "list"
             /\ ValueOf(d, "choices").items # <<>>
             /\ ValueOf(d, "choices").items[1].t = "obj"
             /\ \/ ~HasKey(ValueOf(d, "choices").items[1], "message")
                \/ /\ ValueOf(ValueOf(d, "choices").items[1], "message").t = "obj"
                   /\ ~HasKey(ValueOf(ValueOf(d, "choices").items[1], "message"),
                              "content")

\* C11: chat() is lenient for every unexpected response shape: when choices
\* is an empty list, when the first choice has no message, when the message
\* has no content, or when the decoded response is not an object, chat()
\* returns answer = "" and does not raise.
C11_LenientForEveryShape ==
    \A d \in ChatDocs :
        (UnexpectedChat(d) /\ ChatAnswered(Dumps(d)))
        => last.exc = "" /\ ValueOf(last.value, "answer") = JStr(<<>>)

\* C13: get_datasources sends exactly one GET, to /api/datasources/alive when
\* alive_only is true and to /api/datasources/all when it is false, without
\* query or body, and returns the decoded server response unchanged (no
\* element removed, added or reordered).
C13_DatasourcesEndpoints ==
    last.op = "get_datasources"
    => /\ Len(SentByLast) = 1
       /\ SentByLast[1].method = "GET"
       /\ SentByLast[1].endpoint =
            (IF last.alive_only THEN "/api/datasources/alive" ELSE "/api/datasources/all")
       /\ SentByLast[1].query = <<>>
       /\ ~SentByLast[1].data.some
       /\ (last.o.kind = "ok" /\ JsonLoads(last.o.text).exc = "")
            => last.exc = "" /\ last.value = JsonLoads(last.o.text).v

C13_Witness ==
    /\ last.op = "get_datasources"
    /\ last.alive_only
    /\ last.o = Ok(Dumps(DataSourceList))
    /\ last.value = DataSourceList
    /\ Len(requests) = 1
    /\ requests[1].endpoint = "/api/datasources/alive"

\* C12: for every sequence of result items, the empty one included, the
\* search formatter renders the same text for the bare list of the items as
\* for the object whose results field holds that list.
C12_BothShapesRenderAlike ==
    fmt.state = "done" => fmt.bare = fmt.envelope

C12_Witness ==
    /\ fmt.state = "done"
    /\ fmt.items = <<ItemFull, ItemChunk>>
    /\ fmt.envelope.exc = ""
    /\ Followed(fmt.envelope.text, "  File: ", "src/login.py")
    /\ Followed(fmt.envelope.text, "  File: ", "src/db.py")
    /\ fmt.bare = fmt.envelope

\* the positions in a rendered text where a result block starts
BlockStarts(text) ==
    SelectSeq([i \in 1..Len(text) |-> i], LAMBDA i : text[i] = "\n--- Result #")

\* the k-th block of a rendered text: from its header up to the line break
\* before the next header or before the closing count
BlockText(text, k) ==
    SubSeq(text, BlockStarts(text)[k],
           (IF k < Len(BlockStarts(text)) THEN BlockStarts(text)[k + 1]
            ELSE Len(text) - 2) - 2)

\* C15: for a response with SearchResult items r1..rn the rendered output has
\* exactly n blocks, the k-th numbered k and rendering rk, in the order of the
\* response, and closes with the count n; nothing is dropped, duplicated or
\* re-sorted.
C15_RankingPreserved ==
    (fmt.state = "done" /\ fmt.items # <<>>
     /\ \A k \in 1..Len(fmt.items) : fmt.items[k] \in SearchResultItems)
    => /\ fmt.bare.exc = ""
       /\ Len(BlockStarts(fmt.bare.text)) = Len(fmt.items)
       /\ \A k \in 1..Len(fmt.items) :
            /\ fmt.bare.text[BlockStarts(fmt.bare.text)[k] + 1] = ToString(k)
            /\ BlockText(fmt.bare.text, k) = Join(ItemLines(k, fmt.items[k]).lines)
       /\ SubSeq(fmt.bare.text, Len(fmt.bare.text) - 2, Len(fmt.bare.text))
            = <<"\n(", ToString(Len(fmt.items)), " results)">>

C15_Witness ==
    /\ fmt.state = "done"
    /\ fmt.items = <<ItemFull, ItemChunk>>
    /\ fmt.bare.exc = ""
    /\ Len(BlockStarts(fmt.bare.text)) = 2
    /\ Followed(BlockText(fmt.bare.text, 1), "  Relevance: ", "2")
    /\ Followed(BlockText(fmt.bare.text, 2), "  Relevance: ", "5")

\* C16: the auth-check command hands no request to urlopen, and it exits 0
\* exactly when an API key is present in CODEALIVE_API_KEY or in the OS
\* credential store, and exits 1 otherwise.
C16_AuthCheckExit ==
    (proc.state = "exited" /\ proc.cmd = "check_auth")
    => /\ requests = <<>>
       /\ proc.exit \in {0, 1}
       /\ proc.exit = 0 <=> (Truthy(envKey) \/ ~StoreYieldsNothing)

\* the mode a query argument of explore.py names
ModeAsked(arg) ==
    CASE arg = "dependency:lodash" -> "dependency"
      [] arg \in {"pattern: retry ", "Pattern:retry"} -> "pattern"
      [] arg = "implement:rate limiting" -> "implement"
      [] arg = "debug:slow queries" -> "debug"
      [] OTHER -> "understand"

\* a run of explore.py that entered the workflow its query names
ExploreEntered ==
    /\ proc.state = "exited" /\ proc.cmd = "explore"
    /\ Len(proc.argv) >= 2 /\ proc.argv[1] # "--help"
    /\ client.state = "ready"

IsSearchRequest(req) == req.method = "GET" /\ req.endpoint = "/api/search"
IsChatRequest(req) == req.method = "POST" /\ req.endpoint = "/api/chat/completions"

\* urlopen answered with a body that client.search returns
SearchReturned(o) == o.kind = "ok" /\ (o.text = <<>> \/ JsonLoads(o.text).exc = "")

\* the value of the query parameter k of a request, <<>> unless it occurs once
QueryValue(req, k) ==
    IF Len(SelectSeq(req.query, LAMBDA p : p[1] = k)) = 1
    THEN <<SelectSeq(req.query, LAMBDA p : p[1] = k)[1][2]>>
    ELSE <<>>

\* C18: in each of the five modes a run of explore issues one search request
\* and then one chat request, the chat request whatever the search results
\* contain; when the search call fails no chat request is issued and the run
\* ends with an error; no request is repeated.
C18_SearchThenChat ==
    ExploreEntered
    => /\ Len(requests) >= 1
       /\ IsSearchRequest(requests[1])
       /\ IF SearchReturned(proc.o1)
          THEN Len(requests) = 2 /\ IsChatRequest(requests[2])
          ELSE Len(requests) = 1 /\ proc.exit = 1

\* C19: the search request of explore carries IncludeContent=true exactly in
\* the modes pattern and debug and Mode=deep only in the mode pattern; the
\* modes understand, dependency and implement send Mode=auto and
\* IncludeContent=false.
C19_ContentInPatternAndDebug ==
    ExploreEntered
    => /\ QueryValue(requests[1], "IncludeContent")
            = <<IF ModeAsked(proc.argv[1]) \in {"pattern", "debug"} THEN "true" ELSE "false">>
       /\ QueryValue(requests[1], "Mode")
            = <<IF ModeAsked(proc.argv[1]) = "pattern" THEN "deep" ELSE "auto">>

\* C19 as amended: the search request of explore carries IncludeContent=true
\* exactly in the modes dependency, pattern and debug and Mode=deep only in
\* the mode pattern; the modes understand and implement send Mode=auto and
\* IncludeContent=false, and dependency sends Mode=auto.
C19_ContentInDependencyPatternDebug ==
    ExploreEntered
    => /\ QueryValue(requests[1], "IncludeContent")
            = <<IF ModeAsked(proc.argv[1]) \in {"dependency", "pattern", "debug"}
                THEN "true" ELSE "false">>
       /\ QueryValue(requests[1], "Mode")
            = <<IF ModeAsked(proc.argv[1]) = "pattern" THEN "deep" ELSE "auto">>

C19_Witness ==
    /\ ExploreEntered
    /\ proc.argv[1] = "dependency:lodash"
    /\ Len(requests) = 2
    /\ QueryValue(requests[1], "IncludeContent") = <<"true">>
    /\ QueryValue(requests[1], "Mode") = <<"auto">>

\* the results of a search response: the list itself or its results field
ResultsOf(o) ==
    IF o.text = <<>> THEN <<>>
    ELSE IF JsonLoads(o.text).v.t = "list" THEN JsonLoads(o.text).v.items
    ELSE IF JsonLoads(o.text).v.t = "obj" /\ HasKey(JsonLoads(o.text).v, "results")
    THEN ValueOf(JsonLoads(o.text).v, "results").items
    ELSE <<>>

\* the path a SearchResult names
PathNamed(item) ==
    IF HasKey(item, "location") /\ HasKey(ValueOf(item, "location"), "path")
    THEN ValueOf(ValueOf(item, "location"), "path").s
    ELSE IF HasKey(item, "filePath") THEN ValueOf(item, "filePath").s
    ELSE IF HasKey(item, "file") THEN ValueOf(item, "file").s
    ELSE <<"Unknown">>

\* the positions in the output of the lines that show a location
LocationsAt(out) ==
    SelectSeq([i \in 1..Len(out) |-> i],
              LAMBDA i : Len(out[i]) >= 4 /\ out[i][1] = "   " /\ out[i][3] = ". ")

\* the answer in a chat response
AnswerIn(o) ==
    IF o.text # <<>> /\ WellFormedChat(JsonLoads(o.text).v)
    THEN ContentOf(JsonLoads(o.text).v).s ELSE <<>>

AtMost5(n) == IF n < 5 THEN n ELSE 5

\* C20: a run of explore whose two calls succeed prints, in every mode, the
\* locations of the first five search results (of all of them when they are
\* fewer) in the order of the response, and after them the whole chat answer.
C20_LocationsThenAnswer ==
    (ExploreEntered /\ proc.exit = 0)
    => /\ Len(LocationsAt(proc.out)) = AtMost5(Len(ResultsOf(proc.o1)))
       /\ \A k \in 1..Len(LocationsAt(proc.out)) :
            /\ proc.out[LocationsAt(proc.out)[k]][2] = ToString(k)
            /\ SubSeq(proc.out[LocationsAt(proc.out)[k]], 4,
                      3 + Len(PathNamed(ResultsOf(proc.o1)[k])))
                 = PathNamed(ResultsOf(proc.o1)[k])
       /\ \E j \in 1..Len(proc.out) :
            /\ proc.out[j] = AnswerIn(proc.o2)
            /\ \A k \in 1..Len(LocationsAt(proc.out)) : LocationsAt(proc.out)[k] < j

\* a run of a front end that has ended
Exited(cmd) == proc.state = "exited" /\ proc.cmd = cmd

\* the argument lists that lack an argument the command's usage requires: the
\* question or query, and a data source (for chat a conversation id instead)
ArgsMissing ==
    \/ proc.cmd = "chat" /\ proc.argv \in { <<>>, <<CliQuestion>> }
    \/ proc.cmd = "search"
       /\ proc.argv \in { <<>>, <<"auth flow">>, <<"auth flow", "--include-content">> }
    \/ proc.cmd = "explore" /\ proc.argv \in { <<>>, <<"auth flow">> }
    \/ proc.cmd = "api_client"
       /\ proc.argv \in { <<>>, <<"search">>, <<"search", "auth flow">>,
                          <<"search", "auth flow", "--include-content">>,
                          <<"chat", CliQuestion>> }

\* no API key in the environment variable or the credential store, for a
\* command that needs one
CredentialUnresolved ==
    /\ proc.cmd \in {"chat", "search", "datasources", "explore", "api_client", "check_auth"}
    /\ ~Truthy(envKey)
    /\ StoreYieldsNothing

\* the last request of the run met a transport failure, an HTTP error status
\* or a body that is no JSON
RequestFailed ==
    /\ requests # <<>>
    /\ \/ (IF Len(requests) = 1 THEN proc.o1 ELSE proc.o2).kind \in {"http", "url"}
       \/ /\ (IF Len(requests) = 1 THEN proc.o1 ELSE proc.o2).text # <<>>
          /\ JsonLoads((IF Len(requests) = 1 THEN proc.o1 ELSE proc.o2).text).exc # ""

\* the input at setup's prompt was cancelled, or was empty
PromptCancelled ==
    proc.cmd = "setup" /\ (proc.prompt.exc # "" \/ (proc.asked /\ Strip(proc.prompt.text) = <<>>))

\* C14: a run of a front end ends with exit code 0 or 1; with 0 when it showed
\* its help; otherwise with 1 when an argument is missing, the credential is
\* unresolved, the request failed or the prompt was cancelled, and with 1 only
\* when one of these or another error ended the run.
C14_ExitCodes ==
    proc.state = "exited"
    => /\ proc.exit \in {0, 1}
       /\ proc.help => proc.exit = 0
       /\ (~proc.help /\ (ArgsMissing \/ CredentialUnresolved \/ RequestFailed
                          \/ PromptCancelled))
            => proc.exit = 1
       /\ proc.exit = 1
            => (ArgsMissing \/ CredentialUnresolved \/ RequestFailed \/ PromptCancelled
                \/ proc.error # "")

\* C17: a run of explore hands at most two requests to urlopen, a run of any
\* other front end (chat, search, datasources, setup, auth-check) at most one.
C17_AtMostTwoOrOne ==
    proc.state = "exited"
    => Len(requests) <= (IF proc.cmd = "explore" THEN 2 ELSE 1)

\* C17 as amended: a run of explore and a run of setup hand at most two
\* requests to urlopen, one after the other; a run of chat, search,
\* datasources or the client's own command line at most one; a run of
\* auth-check none.
C17_AtMostTwoOneOrNone ==
    proc.state = "exited"
    => Len(requests) <= (CASE proc.cmd \in {"explore", "setup"} -> 2
                           [] proc.cmd = "check_auth" -> 0
                           [] OTHER -> 1)

\* setup verifies the key it found, which fails, and then the new key
C17_Witness ==
    /\ Exited("setup")
    /\ Len(requests) = 2
    /\ requests[1].endpoint = "/api/datasources/alive"
    /\ requests[2].endpoint = "/api/datasources/alive"
    /\ requests[1].authorization # requests[2].authorization
    /\ proc.o1.kind = "http"
    /\ proc.exit = 0

\* the mode a word spells when upper and lower case are not told apart, ""
\* when it spells none
ModeSpelled(w) ==
    CASE w \in {"understand", "Understand", "UNDERSTAND"} -> "understand"
      [] w \in {"dependency", "Dependency", "DEPENDENCY"} -> "dependency"
      [] w \in {"pattern", "Pattern", "PATTERN"} -> "pattern"
      [] w \in {"implement", "Implement", "iMpLeMeNt"} -> "implement"
      [] w \in {"debug", "Debug", "DEBUG"} -> "debug"
      [] OTHER -> ""

\* the query starts with a mode word and a colon
Prefixed(q) == Len(q) >= 2 /\ q[2] = ":" /\ ModeSpelled(q[1]) # ""

\* t is r without the white space around it
Trimmed(t, r) ==
    /\ t = <<>> \/ (~IsSpace(t[1]) /\ ~IsSpace(t[Len(t)]))
    /\ \E a \in 0..Len(r), b \in 0..Len(r) :
         /\ a + b <= Len(r)
         /\ t = SubSeq(r, a + 1, Len(r) - b)
         /\ \A i \in 1..a : IsSpace(r[i])
         /\ \A i \in (Len(r) - b + 1)..Len(r) : IsSpace(r[i])

\* C21: parse_query maps every query to one of the five modes: a query that
\* starts, in any case, with a mode word and a colon to that mode and the rest
\* of the query without the white space around it; every other query (unknown
\* prefix, mode word without a colon, leading space) to understand and the
\* query unchanged; and main() calls exactly the one workflow of the mode.
C21_ParseQueryTotal ==
    (pure.state = "done" /\ pure.fn = "parse_query")
    => /\ pure.out.mode \in {"understand", "dependency", "pattern", "implement", "debug"}
       /\ Prefixed(pure.arg)
            => /\ pure.out.mode = ModeSpelled(pure.arg[1])
               /\ Trimmed(pure.out.query, SubSeq(pure.arg, 3, Len(pure.arg)))
       /\ ~Prefixed(pure.arg)
            => pure.out.mode = "understand" /\ pure.out.query = pure.arg
       /\ pure.out.workflow
            = (CASE pure.out.mode = "understand" -> "explore_understand"
                 [] pure.out.mode = "dependency" -> "explore_dependency"
                 [] pure.out.mode = "pattern" -> "explore_pattern"
                 [] pure.out.mode = "implement" -> "explore_implement"
                 [] OTHER -> "explore_debug")

C21_Witness ==
    /\ pure.state = "done"
    /\ pure.fn = "parse_query"
    /\ pure.arg = <<"DEBUG", ":", " ", "auth flow", " ">>
    /\ pure.out = [mode |-> "debug", query |-> <<"auth flow">>, workflow |-> "explore_debug"]

\* the key a run of setup.py was given: the --key argument, else the input typed
\* at the prompt without the white space around it
KeyEntered(p) ==
    IF Truthy(SetupKeyArg(p.argv)) THEN SetupKeyArg(p.argv).v
    ELSE IF p.asked /\ p.prompt.exc = "" THEN Strip(p.prompt.text)
    ELSE <<>>

\* the last request of the run is the verification of key
VerifiedLast(reqs, key) ==
    /\ Len(reqs) >= 1
    /\ reqs[Len(reqs)].method = "GET"
    /\ reqs[Len(reqs)].endpoint = "/api/datasources/alive"
    /\ reqs[Len(reqs)].authorization = <<"Bearer ">> \o key

\* what urlopen did with the last request of the run
LastOutcome(p, reqs) == IF Len(reqs) >= 2 THEN p.o2 ELSE p.o1

\* the answer verify_key accepts: a 2xx response whose body is JSON
Passed(o) == o.kind = "ok" /\ \E d \in JsonDocs : Dumps(d) = o.text

\* C22: in every run of setup.py the key written to the credential store, or
\* shown in the export hint, is the key the run was given, and the run's last
\* request before it is a verification of that same key that succeeded; the
\* store changes only by that write; and when the verification of the key
\* given fails the run exits 1 and leaves the store as it was.
C22_VerifyBeforeStore ==
    [][(proc'.cmd = "setup")
       => /\ proc'.stored.some => proc'.stored.v = KeyEntered(proc')
          /\ (proc'.stored.some \/ proc'.hint)
               => /\ KeyEntered(proc') # <<>>
                  /\ VerifiedLast(requests', KeyEntered(proc'))
                  /\ Passed(LastOutcome(proc', requests'))
          /\ store' # store
               => /\ proc'.stored.some
                  /\ store' = StoreHolding(platformSystem, KeyEntered(proc'))
          /\ (KeyEntered(proc') # <<>>
                 /\ VerifiedLast(requests', KeyEntered(proc'))
                 /\ ~Passed(LastOutcome(proc', requests')))
               => proc'.exit = 1 /\ store' = store /\ ~proc'.hint]_vars

\* a run that found a stored key that no longer works, verified the key typed
\* at the prompt and wrote it to the store
C22_Witness ==
    /\ proc.state = "exited"
    /\ proc.cmd = "setup"
    /\ proc.exit = 0
    /\ proc.o1.kind = "http"
    /\ Passed(proc.o2)
    /\ proc.stored = Some(<<"sk-typed">>)
    /\ Len(requests) = 2
    /\ VerifiedLast(requests, <<"sk-typed">>)
    /\ store = StoreHolding(platformSystem, <<"sk-typed">>)

\* the client constructor without an explicit key resolves a key
ClientResolves(r) == r.exc = "" /\ Truthy(r.key)

\* read_existing_key returned the key the client resolves, or neither has one
SameKey(existing, r) ==
    IF ClientResolves(r) THEN existing = r.key ELSE ~Truthy(existing)

\* C23: on every platform and for every state of the environment variable and
\* the credential store, find_key reports a key exactly when the client
\* constructor without an explicit key resolves one, and read_existing_key
\* returns the key the client resolves.
C23_ResolversAgree ==
    (pure.state = "done" /\ pure.fn = "resolve")
    => /\ pure.out.found <=> ClientResolves(pure.out.resolved)
       /\ SameKey(pure.out.existing, pure.out.resolved)

\* the positions in the listing where the line of an entry starts
EntryLines(text) == { i \in 1..(Len(text) - 1) : text[i] = "\n  " }

\* how many entry lines of the listing name a source, and how many of the data
\* sources returned bear that name
ListedAs(text, name) == Cardinality({ i \in EntryLines(text) : text[i + 1] = name })
ReturnedAs(items, name) ==
    Cardinality({ i \in 1..Len(items) : ValueOf(items[i], "name") = JStr(<<name>>) })

\* C24: in the text output of a non-empty list of data sources every data
\* source returned is listed exactly once, and the total of the header equals
\* the number of entries listed, whatever the type of each entry (Repository,
\* Workspace, another type, no type).
C24_EveryEntryListed ==
    (pure.state = "done" /\ pure.fn = "format_datasources" /\ pure.arg # <<>>)
    => /\ pure.out.exc = ""
       /\ \A name \in {"backend", "indexing", "team", "docs", "untyped"} :
            ListedAs(pure.out.text, name) = ReturnedAs(pure.arg, name)
       /\ pure.out.text[1] = "\nAvailable Data Sources ("
       /\ pure.out.text[2] = ToString(Cardinality(EntryLines(pure.out.text)))

\* what a front end extracted: the placeholder it prints for a missing value
\* counts as no value
Extracted(e, placeholder) ==
    IF e.exc # "" THEN JStr(<<e.exc>>)
    ELSE IF e.v = JStr(<<placeholder>>) THEN JNull ELSE e.v

\* C25: for every shape of the response (bare list, object with results,
\* object without results, empty value) and every combination of the candidate
\* keys of the location, the explore and the search front end extract the
\* same sequence of items and, for each item, the same file path and the same
\* start line.
C25_ParsersAgree ==
    (pure.state = "done" /\ pure.fn = "parsers")
    => /\ pure.out.searchItems = pure.out.exploreItems
       /\ \A i \in 1..Len(pure.out.searchItems) :
            i \in 1..Len(pure.out.exploreItems)
            => /\ Extracted(pure.out.search[i].path, "Unknown")
                    = Extracted(pure.out.explore[i].path, "Unknown")
               /\ Extracted(pure.out.search[i].line, "?")
                    = Extracted(pure.out.explore[i].line, "?")

====
